---- MODULE Spec2Model ----
(***************************************************************************)
(* Constant-pool resolution of kaffe (kaffe/kaffevm/lookup.c): getClass,   *)
(* getMethodSignatureClass, findMethodLocal and findMethod, run by several *)
(* threads on a small fixed class graph.                                   *)
(*                                                                         *)
(* Memory is read and written one source statement at a time: every read   *)
(* or write of a shared word (a constant-pool tag or payload, a method's   *)
(* native-code slot or flags, a class state, a lock) is a step of its own  *)
(* unless the thread holds the lock that guards it.                        *)
(***************************************************************************)
EXTENDS Integers, Sequences, FiniteSets, TLC

\* ------------------------------------------------------------------ bounds
NumThreads == 2
MaxCalls == 2

Threads == 1..NumThreads

\* ------------------------------------------------------- class linkage states
\* classMethod.h is not part of the sources; the order is the one lookup.c and
\* Class.c rely on (FAILED below everything, LINKED < USABLE < COMPLETE).
CSTATE_FAILED == -1
CSTATE_UNLOADED == 0
CSTATE_LINKED == 5
CSTATE_USABLE == 8
CSTATE_COMPLETE == 10

\* ------------------------------------------------------------ the class graph
NULL == "NULL"
Classes == {"A", "B", "C", "X", "I", "J", "arrA"}

\* Utf8 constants are sequences of characters.
U_A == <<"A">>
U_B == <<"B">>
U_C == <<"C">>
U_X == <<"X">>
U_I == <<"I">>
U_J == <<"J">>
U_arrA == <<"[", "L", "A", ";">>
U_f == <<"f">>
U_g == <<"g">>
U_h == <<"h">>
U_m == <<"m">>
U_v == <<"v">>
U_w == <<"w">>
U_s == <<"s">>
U_sigV == <<"(", ")", "V">>
U_sigI == <<"I">>
constructor_name == <<"<", "i", "n", "i", "t", ">">>
NoUtf == <<>>

\* Hjava_lang_Class fields that never change after linking.
className == [c \in Classes |->
    CASE c = "A" -> U_A [] c = "B" -> U_B [] c = "C" -> U_C [] c = "X" -> U_X
      [] c = "I" -> U_I [] c = "J" -> U_J [] OTHER -> U_arrA]

superclass == [c \in Classes |->
    CASE c = "B" -> "A" [] c = "C" -> "B" [] c = "X" -> "A" [] c = "arrA" -> "A"
      [] OTHER -> NULL]

\* class->interfaces: the direct interfaces first (interface_len of them), then
\* the inherited ones, total_interface_len in all.
interfaces == [c \in Classes |->
    CASE c = "X" -> <<"I", "J">> [] c = "I" -> <<"J">> [] OTHER -> <<>>]

interface_len == [c \in Classes |-> CASE c = "X" -> 1 [] c = "I" -> 1 [] OTHER -> 0]

total_interface_len == [c \in Classes |-> Len(interfaces[c])]

classAccflags == [c \in Classes |->
    CASE c \in {"I", "J"} -> {"ACC_INTERFACE", "ACC_ABSTRACT"}
      [] c = "A" -> {"ACC_ABSTRACT"}
      [] OTHER -> {}]

CLASS_IS_INTERFACE(c) == "ACC_INTERFACE" \in classAccflags[c]

\* A Method record; ncode is the native-code slot.
Meth(n, s, fl, c) == [name |-> n, sig |-> s, accflags |-> fl, ncode |-> "code", class |-> c]

methods0 == [c \in Classes |->
    CASE c = "A" -> << Meth(constructor_name, U_sigV, {"ACC_PUBLIC"}, "A"),
                       Meth(U_f, U_sigV, {"ACC_PUBLIC"}, "A"),
                       Meth(U_h, U_sigV, {"ACC_PUBLIC", "ACC_ABSTRACT"}, "A") >>
      [] c = "B" -> << Meth(constructor_name, U_sigV, {"ACC_PUBLIC"}, "B"),
                       Meth(U_f, U_sigV, {"ACC_PRIVATE"}, "B") >>
      [] c = "C" -> << Meth(U_f, U_sigV, {"ACC_PUBLIC"}, "C") >>
      [] c = "J" -> << Meth(U_g, U_sigV, {"ACC_PUBLIC", "ACC_ABSTRACT"}, "J") >>
      [] OTHER -> << >>]

\* A Method*: the declaring class and the position in its method table.
NoMethod == [c |-> NULL, k |-> 0]
MethodPtr(c, k) == [c |-> c, k |-> k]

\* A Field record, and each class's own field table: A declares the instance
\* field v and the static field s; B, its subclass, declares only w.
Fld(n, s, st) == [name |-> n, sig |-> s, static |-> st]

fields0 == [c \in Classes |->
    CASE c = "A" -> << Fld(U_v, U_sigI, FALSE), Fld(U_s, U_sigI, TRUE) >>
      [] c = "B" -> << Fld(U_w, U_sigI, FALSE) >>
      [] OTHER -> << >>]

\* A Field*: the declaring class and the position in its field table.
NoField == [c |-> NULL, k |-> 0]
FieldPtr(c, k) == [c |-> c, k |-> k]

\* ---------------------------------------------------------- constant pools
\* A ConstSlot word: a Utf8 pointer, a class handle, or two 16-bit indices.
WUtf(u) == [k |-> "utf8", u |-> u, c |-> NULL, lo |-> 0, hi |-> 0]
WClass(c) == [k |-> "class", u |-> NoUtf, c |-> c, lo |-> 0, hi |-> 0]
WPair(lo, hi) == [k |-> "pair", u |-> NoUtf, c |-> NULL, lo |-> lo, hi |-> hi]
WNull == [k |-> "null", u |-> NoUtf, c |-> NULL, lo |-> 0, hi |-> 0]

Slot(t, w) == [tag |-> t, data |-> w]

\* Pool of class C (the context of most calls).
PoolC == <<
    Slot("CONSTANT_Utf8", WUtf(U_f)),                    \*  1
    Slot("CONSTANT_Utf8", WUtf(U_sigV)),                 \*  2
    Slot("CONSTANT_Utf8", WUtf(constructor_name)),       \*  3
    Slot("CONSTANT_Utf8", WUtf(U_h)),                    \*  4
    Slot("CONSTANT_Utf8", WUtf(U_m)),                    \*  5
    Slot("CONSTANT_NameAndType", WPair(1, 2)),           \*  6  f()V
    Slot("CONSTANT_NameAndType", WPair(3, 2)),           \*  7  <init>()V
    Slot("CONSTANT_NameAndType", WPair(4, 2)),           \*  8  h()V
    Slot("CONSTANT_NameAndType", WPair(5, 2)),           \*  9  m()V
    Slot("CONSTANT_Class", WUtf(U_A)),                   \* 10
    Slot("CONSTANT_Class", WUtf(U_B)),                   \* 11
    Slot("CONSTANT_Class", WUtf(U_C)),                   \* 12
    Slot("CONSTANT_Class", WUtf(U_X)),                   \* 13
    Slot("CONSTANT_Class", WUtf(U_arrA)),                \* 14
    Slot("CONSTANT_Methodref", WPair(10, 6)),            \* 15  A.f()V
    Slot("CONSTANT_Methodref", WPair(11, 6)),            \* 16  B.f()V
    Slot("CONSTANT_Methodref", WPair(12, 6)),            \* 17  C.f()V
    Slot("CONSTANT_Methodref", WPair(10, 7)),            \* 18  A.<init>()V
    Slot("CONSTANT_Methodref", WPair(13, 6)),            \* 19  X.f()V
    Slot("CONSTANT_Methodref", WPair(11, 8)),            \* 20  B.h()V
    Slot("CONSTANT_Methodref", WPair(13, 9)),            \* 21  X.m()V
    Slot("CONSTANT_Utf8", WUtf(U_v)),                    \* 22
    Slot("CONSTANT_Utf8", WUtf(U_sigI)),                 \* 23
    Slot("CONSTANT_NameAndType", WPair(22, 23)),         \* 24  v I
    Slot("CONSTANT_Fieldref", WPair(11, 24)),            \* 25  B.v
    Slot("CONSTANT_Fieldref", WPair(10, 24)),            \* 26  A.v
    Slot("CONSTANT_Fieldref", WPair(13, 24))             \* 27  X.v
>>

\* Pool of class X.
PoolX == <<
    Slot("CONSTANT_Utf8", WUtf(U_g)),                    \* 1
    Slot("CONSTANT_Utf8", WUtf(U_sigV)),                 \* 2
    Slot("CONSTANT_NameAndType", WPair(1, 2)),           \* 3  g()V
    Slot("CONSTANT_Class", WUtf(U_X)),                   \* 4
    Slot("CONSTANT_InterfaceMethodref", WPair(4, 3))     \* 5  X.g()V
>>

\* Pool of class A, the root of the hierarchy: it refers to its own f()V and
\* to that of its subclass B.
PoolA == <<
    Slot("CONSTANT_Utf8", WUtf(U_f)),                    \* 1
    Slot("CONSTANT_Utf8", WUtf(U_sigV)),                 \* 2
    Slot("CONSTANT_NameAndType", WPair(1, 2)),           \* 3  f()V
    Slot("CONSTANT_Class", WUtf(U_A)),                   \* 4
    Slot("CONSTANT_Class", WUtf(U_B)),                   \* 5
    Slot("CONSTANT_Methodref", WPair(4, 3)),             \* 6  A.f()V
    Slot("CONSTANT_Methodref", WPair(5, 3))              \* 7  B.f()V
>>

Contexts == {"C", "X", "A"}
pool0 == [c \in Contexts |-> CASE c = "C" -> PoolC [] c = "X" -> PoolX [] OTHER -> PoolA]

\* constants.h accessors (low half first).
METHODREF_CLASS(idx, p) == p[idx].data.lo
METHODREF_NAMEANDTYPE(idx, p) == p[idx].data.hi
NAMEANDTYPE_NAME(idx, p) == p[idx].data.lo
FIELDREF_CLASS(idx, p) == p[idx].data.lo
FIELDREF_NAMEANDTYPE(idx, p) == p[idx].data.hi
NAMEANDTYPE_SIGNATURE(idx, p) == p[idx].data.hi


\* ------------------------------------------------------------- call inputs
\* One call of the API: the operation and its arguments.
GetClassCall(this, idx) ==
    [op |-> "getClass", this |-> this, idx |-> idx, loadClass |-> FALSE,
     isSpecial |-> 0, isStatic |-> FALSE, class |-> NULL, name |-> NoUtf, sig |-> NoUtf,
     doinit |-> FALSE]
MethodCall(this, idx, lc, sp) ==
    [op |-> "getMethodSignatureClass", this |-> this, idx |-> idx, loadClass |-> lc,
     isSpecial |-> sp, isStatic |-> FALSE, class |-> NULL, name |-> NoUtf, sig |-> NoUtf,
     doinit |-> FALSE]
FieldCall(this, idx, st) ==
    [op |-> "getField", this |-> this, idx |-> idx, loadClass |-> FALSE,
     isSpecial |-> 0, isStatic |-> st, class |-> NULL, name |-> NoUtf, sig |-> NoUtf,
     doinit |-> FALSE]
FindMethodCall(c, n, s) ==
    [op |-> "findMethod", this |-> NULL, idx |-> 0, loadClass |-> FALSE,
     isSpecial |-> 0, isStatic |-> FALSE, class |-> c, name |-> n, sig |-> s,
     doinit |-> FALSE]

\* The calls the threads draw from.  In context C: getClass on the slots of a
\* loaded class, of a class not loaded yet, of an array class and on a Utf8
\* slot; the method references in the modes that take the different paths
\* (ordinary 0, special-1 1, special-2 2), eagerly and not, and the Fieldref
\* as a wrong index.  In context X: its interface method reference.
CallList == <<
    GetClassCall("C", 11), GetClassCall("C", 13), GetClassCall("C", 14),
    GetClassCall("C", 1),
    MethodCall("C", 15, TRUE, 1), MethodCall("C", 15, TRUE, 2),
    MethodCall("C", 16, TRUE, 1),
    MethodCall("C", 17, TRUE, 1),
    MethodCall("C", 18, TRUE, 1),
    MethodCall("C", 19, TRUE, 1),
    MethodCall("C", 20, TRUE, 0),
    MethodCall("C", 21, TRUE, 0), MethodCall("C", 21, TRUE, 2),
    MethodCall("C", 25, TRUE, 0),
    MethodCall("X", 5, TRUE, 0), MethodCall("X", 5, TRUE, 2),
    MethodCall("C", 15, FALSE, 0),
    MethodCall("C", 25, FALSE, 0), MethodCall("X", 5, FALSE, 2),
    FindMethodCall("B", U_f, U_sigV), FindMethodCall("B", U_h, U_sigV),
    FindMethodCall("B", U_m, U_sigV)
>>

\* The calls of getField: a field its class declares, a field only the
\* superclass declares, a field of a class not loaded yet, and a Methodref as
\* a wrong index.
FieldCallList == <<
    FieldCall("C", 26, FALSE), FieldCall("C", 25, FALSE), FieldCall("C", 27, FALSE),
    FieldCall("C", 15, FALSE)
>>

\* java.lang.Class.forName(str, doinit, loader)
ForNameCall(str, doinit) ==
    [op |-> "forName", this |-> NULL, idx |-> 0, loadClass |-> FALSE,
     isSpecial |-> 0, isStatic |-> FALSE, class |-> NULL, name |-> str, sig |-> NoUtf,
     doinit |-> doinit]

\* The calls of forName: a loaded class, with and without initialisation, a
\* class not loaded yet, a class that does not exist, an array class, and
\* the array class of a class that does not exist.
ForNameCallList == <<
    ForNameCall(<<"B">>, TRUE), ForNameCall(<<"X">>, FALSE), ForNameCall(<<"X">>, TRUE),
    ForNameCall(<<"q", ".", "M">>, FALSE),
    ForNameCall(<<"[", "L", "A", ";">>, FALSE),
    ForNameCall(<<"[", "L", "q", ".", "M", ";">>, FALSE)
>>

\* findMethodLocal(class, name, signature)
LocalCall(c, n, s) ==
    [op |-> "findMethodLocal", this |-> NULL, idx |-> 0, loadClass |-> FALSE,
     isSpecial |-> 0, isStatic |-> FALSE, class |-> c, name |-> n, sig |-> s,
     doinit |-> FALSE]

\* The calls of findMethodLocal: a public, a private and an abstract method of
\* the class itself, an abstract method of an interface, a method only the
\* superclass declares, one only an interface of the class declares, a name
\* the class declares with another signature, and a name nothing declares.
LocalCallList == <<
    LocalCall("A", U_f, U_sigV), LocalCall("B", U_f, U_sigV), LocalCall("A", U_h, U_sigV),
    LocalCall("J", U_g, U_sigV), LocalCall("B", U_h, U_sigV), LocalCall("X", U_g, U_sigV),
    LocalCall("B", U_f, U_sigI), LocalCall("B", U_m, U_sigV)
>>

\* The method references of the root class A, in special-1 mode.
RootCallList == << MethodCall("A", 6, TRUE, 1), MethodCall("A", 7, TRUE, 1) >>

AllCalls == CallList \o FieldCallList \o ForNameCallList \o LocalCallList \o RootCallList

\* ------------------------------------------------------------------- state
VARIABLES
    pool,      \* pool[c][idx]: tag and payload of every constant-pool slot
    lock,      \* lock[c]: the thread holding c->centry's mutex, 0 if free
    methods,   \* methods[c][k]: the method records
    cstate,    \* cstate[c]: class->state
    pc,        \* pc[t]: where thread t is
    cur,       \* cur[t]: the call thread t is executing or has just finished
    fr,        \* fr[t]: the locals of the running functions
    call,      \* call[t]: the caller's callInfo
    einfo,     \* einfo[t]: the caller's errorInfo
    ret,       \* ret[t]: the value returned by the finished call
    ncalls,    \* number of calls started so far
    work,      \* the two calls this run draws from (indices into AllCalls)
    failed,    \* history: the slots on which a getClass has returned a loader failure
    finfo,     \* finfo[t]: the caller's fieldInfo
    fn         \* fn[t]: the locals of java_lang_Class_forName and what became of its errorInfos

vars == <<pool, lock, methods, cstate, pc, cur, fr, call, einfo, ret, ncalls, work, failed,
          finfo, fn>>

\* errorInfo
NoError == [type |-> "none", classname |-> "", mess |-> NoUtf]
postException(cls) == [type |-> "KERR_EXCEPTION", classname |-> cls, mess |-> NoUtf]
postExceptionMessage(cls, mess) == [type |-> "KERR_EXCEPTION", classname |-> cls, mess |-> mess]

\* callInfo
NoCall == [class |-> WNull, method |-> NoMethod, signature |-> NoUtf, name |-> NoUtf,
           cname |-> WNull, in |-> 0, out |-> 0, rettype |-> ""]

NoRet == [k |-> "none", w |-> WNull, b |-> FALSE, m |-> NoMethod]
RetClass(w) == [k |-> "class", w |-> w, b |-> FALSE, m |-> NoMethod]
RetBool(b) == [k |-> "bool", w |-> WNull, b |-> b, m |-> NoMethod]
RetMethod(m) == [k |-> "method", w |-> WNull, b |-> FALSE, m |-> m]

\* fieldInfo; getField does not clear it on entry.
NoFieldInfo == [class |-> WNull, field |-> NoField, cname |-> WNull, name |-> NoUtf,
                signature |-> NoUtf]

\* java_lang_Class_forName: buf and centry are its locals, held and copy say
\* which errorInfo its variables einfo and einfo_copy hold.  The rest is
\* history: the loader entry point called, the descriptor the loader posted, whether the class of the name
\* was FAILED when the call began, the descriptors made, discarded, thrown and
\* overwritten while nothing else held them, and the descriptor thrown.
NoForName == [buf |-> NoUtf, entry |-> "", centry |-> "", held |-> "", copy |-> "",
              loaded |-> NoError, wasFailed |-> FALSE,
              made |-> {}, discarded |-> <<>>, thrown |-> <<>>, lost |-> {},
              error |-> NoError]

\* retry is history: the call began after a loader failure on its class slot;
\* so is entry: the loader entry point getClass called.
NoFrame == [gidx |-> 0, tag |-> "", name |-> WNull, class |-> WNull, mptr |-> NoMethod,
            retry |-> FALSE, entry |-> ""]

\* The state before any call, for a run that draws its calls from W and
\* begins with the classes in the states st.
StartStateIn(W, st) ==
    /\ pool = pool0
    /\ lock = [c \in Contexts |-> 0]
    /\ methods = methods0
    /\ cstate = st
    /\ pc = [t \in Threads |-> "idle"]
    /\ cur = [t \in Threads |-> CallList[1]]
    /\ fr = [t \in Threads |-> NoFrame]
    /\ call = [t \in Threads |-> NoCall]
    /\ einfo = [t \in Threads |-> NoError]
    /\ ret = [t \in Threads |-> NoRet]
    /\ ncalls = 0
    /\ work \in W
    /\ failed = {}
    /\ finfo = [t \in Threads |-> NoFieldInfo]
    /\ fn = [t \in Threads |-> NoForName]

\* The state before any call when C and its superclasses are linked and
\* nothing else is loaded.
StartState(W) ==
    StartStateIn(W, [c \in Classes |->
                       IF c \in {"A", "B", "C"} THEN CSTATE_LINKED ELSE CSTATE_UNLOADED])

\* Two calls of getClass, getMethodSignatureClass and findMethod.
MethodWork == {w \in (1..Len(CallList)) \X (1..Len(CallList)) : w[1] <= w[2]}

\* The calls of a run with getField: those of getField and of getClass, and
\* those of getMethodSignatureClass on an index that is no method reference.
FieldRunCalls ==
    {i \in 1..Len(AllCalls) :
        \/ AllCalls[i].op \in {"getField", "getClass"}
        \/ /\ AllCalls[i].op = "getMethodSignatureClass"
           /\ pool0[AllCalls[i].this][AllCalls[i].idx].tag
                 \notin {"CONSTANT_Methodref", "CONSTANT_InterfaceMethodref"}}

\* Two calls of such a run.
FieldWork == {w \in FieldRunCalls \X FieldRunCalls : w[1] <= w[2]}

Init == StartState(MethodWork)

InitField == StartState(FieldWork)

\* Two calls of forName.
ForNameRunCalls == {i \in 1..Len(AllCalls) : AllCalls[i].op = "forName"}
ForNameWork == {w \in ForNameRunCalls \X ForNameRunCalls : w[1] <= w[2]}

InitForName == StartState(ForNameWork)

\* Two calls of getClass and forName.
LoaderRunCalls == {i \in 1..Len(AllCalls) : AllCalls[i].op \in {"getClass", "forName"}}
LoaderWork == {w \in LoaderRunCalls \X LoaderRunCalls : w[1] <= w[2]}

InitLoader == StartState(LoaderWork)

\* Two calls of findMethodLocal, with every class linked.
LocalRunCalls == {i \in 1..Len(AllCalls) : AllCalls[i].op = "findMethodLocal"}
LocalWork == {w \in LocalRunCalls \X LocalRunCalls : w[1] <= w[2]}

InitLocal == StartStateIn(LocalWork, [c \in Classes |-> CSTATE_LINKED])

\* The calls of a run of getClass, getMethodSignatureClass and getField
\* together, in the contexts C and X: class slots of a loaded class and of a
\* class not loaded yet, method references that load a class, that reach an
\* abstract method and that search interfaces, and field references of a
\* loaded class and of a class not loaded yet.
MixedCalls ==
    {GetClassCall("C", 11), GetClassCall("C", 13),
     MethodCall("C", 19, TRUE, 1), MethodCall("C", 20, TRUE, 0), MethodCall("X", 5, TRUE, 2),
     FieldCall("C", 26, FALSE), FieldCall("C", 27, FALSE)}
MixedRunCalls == {i \in 1..Len(AllCalls) : AllCalls[i] \in MixedCalls}
MixedWork == {w \in MixedRunCalls \X MixedRunCalls : w[1] <= w[2]}

InitMixed == StartState(MixedWork)

\* Two calls of getClass.
RaceRunCalls == {i \in 1..Len(AllCalls) : AllCalls[i].op = "getClass"}
RaceWork == {w \in RaceRunCalls \X RaceRunCalls : w[1] <= w[2]}

InitRace == StartState(RaceWork)

\* The calls of a run of eager getMethodSignatureClass in the contexts A (no
\* superclass) and C: special-1 references that are retargeted and that are
\* not (the context itself, a constructor, a subclass of the context), a
\* reference to a class not loaded yet, and one that reaches an abstract method.
RootCalls ==
    {MethodCall("A", 6, TRUE, 1), MethodCall("A", 7, TRUE, 1),
     MethodCall("C", 15, TRUE, 1), MethodCall("C", 16, TRUE, 1), MethodCall("C", 17, TRUE, 1),
     MethodCall("C", 18, TRUE, 1), MethodCall("C", 19, TRUE, 1), MethodCall("C", 20, TRUE, 0)}
RootRunCalls == {i \in 1..Len(AllCalls) : AllCalls[i] \in RootCalls}
RootWork == {w \in RootRunCalls \X RootRunCalls : w[1] <= w[2]}

InitRoot == StartState(RootWork)


\* ------------------------------------------------- collaborators of lookup.c
\* Utf8 constants are interned: equal pointers are equal strings.
utf8ConstEqual(a, b) == a = b

RECURSIVE SuperChain(_)
\* c, c->superclass, ... up to the root.
SuperChain(c) == IF c = NULL THEN <<>> ELSE <<c>> \o SuperChain(superclass[c])

Range(s) == {s[i] : i \in 1..Len(s)}

\* instanceof(c, oc) of soft.c: oc is c, a subclass of c, or implements c.
instanceof(c, oc) ==
    \/ c = oc
    \/ /\ oc # NULL
       /\ \E d \in Range(SuperChain(oc)) : d = c \/ c \in Range(interfaces[d])

RECURSIVE CountArgs(_, _)
CountArgs(sig, i) ==
    IF i > Len(sig) \/ sig[i] = ")" THEN 0
    ELSE (IF sig[i] \in {"J", "D"} THEN 2 ELSE 1) + CountArgs(sig, i + 1)

\* countInsAndOuts of support.c: argument words, result words, return type.
countInsAndOuts(sig) ==
    LET close == CHOOSE i \in 0..Len(sig) :
                    /\ i = 0 \/ sig[i] = ")"
                    /\ \A j \in 1..Len(sig) : sig[j] = ")" => i = j
        rt == IF close = 0 \/ close = Len(sig) THEN "" ELSE sig[close + 1]
    IN  [in |-> IF Len(sig) > 0 /\ sig[1] = "(" THEN CountArgs(sig, 2) ELSE 0,
         out |-> CASE rt \in {"V", ""} -> 0 [] rt \in {"J", "D"} -> 2 [] OTHER -> 1,
         rettype |-> rt]

\* The class loader's canonical table: at most one class per (name, loader).
NamedClass(name) ==
    IF \E c \in Classes : className[c] = name
    THEN CHOOSE c \in Classes : className[c] = name
    ELSE NULL

\* Classes that are linked together with c: its superclasses and interfaces.
LinkedWith(c) == Range(SuperChain(c)) \cup Range(interfaces[c])

LoadResult(w, e, st) == [class |-> w, einfo |-> e, cstate |-> st]

\* What the loader can answer for a name it can resolve to class c.
LoadKnown(c, name, st) ==
    IF st[c] >= CSTATE_LINKED
    THEN {LoadResult(WClass(c), NoError, st)}
    ELSE IF st[c] = CSTATE_FAILED
    THEN {LoadResult(WNull, postExceptionMessage("java.lang.NoClassDefFoundError", name), st)}
    ELSE {LoadResult(WClass(c), NoError,
                     [d \in Classes |-> IF d \in LinkedWith(c) /\ st[d] < CSTATE_LINKED
                                        THEN CSTATE_LINKED ELSE st[d]]),
          LoadResult(WNull, postExceptionMessage("java.lang.NoClassDefFoundError", name), st),
          LoadResult(WNull, postExceptionMessage("java.lang.VerifyError", name),
                     [st EXCEPT ![c] = CSTATE_FAILED])}

LoadUnknown(name, st) ==
    {LoadResult(WNull, postExceptionMessage("java.lang.NoClassDefFoundError", name), st)}

\* loadClass(name, loader, einfo): a named, non-array class.
loadClass(name, st) ==
    LET c == NamedClass(name)
    IN  IF c # NULL /\ name[1] # "[" THEN LoadKnown(c, name, st) ELSE LoadUnknown(name, st)

\* loadArray(name, loader, einfo): the array class of the element type after '['.
loadArray(name, st) ==
    LET c == NamedClass(name)
    IN  IF c # NULL /\ name[1] = "[" THEN LoadKnown(c, name, st) ELSE LoadUnknown(name, st)

\* processClass(class, CSTATE_COMPLETE, einfo): initialise the class, or fail it.
processClass(c, st) ==
    IF st[c] = CSTATE_FAILED
    THEN {[ok |-> FALSE, cstate |-> st,
           einfo |-> postExceptionMessage("java.lang.NoClassDefFoundError", className[c])]}
    ELSE {[ok |-> TRUE, cstate |-> [st EXCEPT ![c] = CSTATE_COMPLETE], einfo |-> NoError],
          [ok |-> FALSE, cstate |-> [st EXCEPT ![c] = CSTATE_FAILED],
           einfo |-> postException("java.lang.ExceptionInInitializerError")]}

\* ------------------------------------------------------- findMethodLocal
\* The scan of findMethodLocal: the first method of class's own table with
\* this name and signature, whatever its access flags.
findMethodLocal(meths, class, name, signature) ==
    LET hits == {k \in 1..Len(meths[class]) :
                    /\ utf8ConstEqual(name, meths[class][k].name)
                    /\ utf8ConstEqual(signature, meths[class][k].sig)}
    IN  IF hits = {} THEN NoMethod
        ELSE MethodPtr(class, CHOOSE k \in hits : \A j \in hits : k <= j)

\* Mutant: the methods of interfaces get the trap too.
NeedsTrap_InterfacesToo(meths, mptr) ==
    /\ mptr # NoMethod
    /\ "ACC_ABSTRACT" \in meths[mptr.c][mptr.k].accflags

\* The matched method gets the abstract-method trap.
NeedsTrap(meths, mptr) ==
    /\ mptr # NoMethod
    /\ "ACC_ABSTRACT" \in meths[mptr.c][mptr.k].accflags
    /\ ~CLASS_IS_INTERFACE(meths[mptr.c][mptr.k].class)

RECURSIVE SearchSuperclasses(_, _, _, _)
\* for (; class != 0; class = class->superclass) findMethodLocal(class, ...)
SearchSuperclasses(meths, class, name, sig) ==
    IF class = NULL THEN NoMethod
    ELSE LET mptr == findMethodLocal(meths, class, name, sig)
         IN  IF mptr # NoMethod THEN mptr
             ELSE SearchSuperclasses(meths, superclass[class], name, sig)

RECURSIVE SearchInterfaces(_, _, _, _, _)
\* for (i = class->total_interface_len - 1; i >= 0; i--) (i is 0-based)
SearchInterfaces(meths, class, i, name, sig) ==
    IF i < 0 THEN NoMethod
    ELSE LET mptr == findMethodLocal(meths, interfaces[class][i + 1], name, sig)
         IN  IF mptr # NoMethod THEN mptr
             ELSE SearchInterfaces(meths, class, i - 1, name, sig)

\* Mutant: the search is retargeted to the context class itself.
SearchRoot_RetargetsToThis(class, this, name, isSpecial) ==
    IF /\ isSpecial = 1
       /\ ~utf8ConstEqual(name, constructor_name)
       /\ class # this
       /\ instanceof(class, this)
    THEN this
    ELSE class

\* Mutant: the retargeting asks whether the resolved class is a subtype of the
\* context class.
SearchRoot_SubtypeOfContext(class, this, name, isSpecial) ==
    IF /\ isSpecial = 1
       /\ ~utf8ConstEqual(name, constructor_name)
       /\ class # this
       /\ instanceof(this, class)
    THEN superclass[this]
    ELSE class

\* The search root of getMethodSignatureClass.
SearchRoot(class, this, name, isSpecial) ==
    IF /\ isSpecial = 1
       /\ ~utf8ConstEqual(name, constructor_name)
       /\ class # this
       /\ instanceof(class, this)
    THEN superclass[this]
    ELSE class

\* Mutant: the interface loop stops at the direct interfaces.
SearchMethod_DirectOnly(meths, class, name, sig, isSpecial) ==
    LET mptr == SearchSuperclasses(meths, class, name, sig)
    IN  IF mptr = NoMethod /\ isSpecial = 2
        THEN SearchInterfaces(meths, class, interface_len[class] - 1, name, sig)
        ELSE mptr

\* Mutant: the interfaces are searched in every mode.
SearchMethod_EveryMode(meths, class, name, sig, isSpecial) ==
    LET mptr == SearchSuperclasses(meths, class, name, sig)
    IN  IF mptr = NoMethod
        THEN SearchInterfaces(meths, class, total_interface_len[class] - 1, name, sig)
        ELSE mptr

\* The method getMethodSignatureClass ends with, searching from call->class.
SearchMethod(meths, class, name, sig, isSpecial) ==
    LET mptr == SearchSuperclasses(meths, class, name, sig)
    IN  IF mptr = NoMethod /\ isSpecial = 2
        THEN SearchInterfaces(meths, class, total_interface_len[class] - 1, name, sig)
        ELSE mptr


\* ------------------------------------------------------------------ steps
Inputs == {AllCalls[work[1]], AllCalls[work[2]]}

\* A thread may start a call when it is not in one.  The threads are
\* indistinguishable, so they make their first calls in the order of their
\* numbers.
CanStart(t) ==
    /\ pc[t] \in {"idle", "done"}
    /\ ncalls < MaxCalls
    /\ IF t = 1 THEN TRUE ELSE pc[t - 1] # "idle"

Tag(this, idx) == pool[this][idx].tag
Data(this, idx) == pool[this][idx].data

\* Where getClass returns to: the API caller, getField or
\* getMethodSignatureClass.
ReturnPc(op) ==
    CASE op = "getClass" -> "done" [] op = "getField" -> "gf_ret" [] OTHER -> "ms_ret"

\* getClass returns w to whoever called it.
GcReturn(t, w) ==
    /\ pc' = [pc EXCEPT ![t] = ReturnPc(cur[t].op)]
    /\ ret' = [ret EXCEPT ![t] = IF cur[t].op = "getClass" THEN RetClass(w) ELSE @]

\* The first statement of getClass in call c of thread t, for slot idx:
\*   tag = pool->tags[idx]; switch (tag)
\* with the default case, which posts ClassFormatError and returns NULL.
GcReadTag(t, c, idx) ==
    LET tag == Tag(c.this, idx)
        known == tag \in {"CONSTANT_ResolvedClass", "CONSTANT_Class"}
    IN  /\ fr' = [fr EXCEPT ![t] =
                   [NoFrame EXCEPT !.gidx = idx, !.tag = tag,
                                   !.retry = <<c.this, idx>> \in failed]]
        /\ einfo' = [einfo EXCEPT ![t] =
                   IF known THEN NoError ELSE postException("java.lang.ClassFormatError")]
        /\ pc' = [pc EXCEPT ![t] =
                   CASE tag = "CONSTANT_ResolvedClass" -> "gc_fast"
                     [] tag = "CONSTANT_Class" -> "gc_lock1"
                     [] OTHER -> ReturnPc(c.op)]
        /\ ret' = [ret EXCEPT ![t] =
                   IF ~known /\ c.op = "getClass" THEN RetClass(WNull) ELSE NoRet]

\* A caller enters getClass(idx, this, einfo) and reads the slot's tag.
StartGetClass(t) ==
    /\ CanStart(t)
    /\ \E c \in Inputs :
         /\ c.op = "getClass"
         /\ cur' = [cur EXCEPT ![t] = c]
         /\ GcReadTag(t, c, c.idx)
    /\ call' = [call EXCEPT ![t] = NoCall]
    /\ ncalls' = ncalls + 1
    /\ UNCHANGED <<pool, lock, methods, cstate, work, failed, finfo, fn>>

\* case CONSTANT_ResolvedClass: return (CLASS_CLASS(idx, pool));
GcFastPath(t) ==
    /\ pc[t] = "gc_fast"
    /\ fr' = [fr EXCEPT ![t].class = Data(cur[t].this, fr[t].gidx)]
    /\ GcReturn(t, Data(cur[t].this, fr[t].gidx))
    /\ UNCHANGED <<pool, lock, methods, cstate, cur, call, einfo, ncalls, work, failed, finfo, fn>>

\* lockMutex(this->centry), first time
GcLockRead(t) ==
    /\ pc[t] = "gc_lock1"
    /\ lock[cur[t].this] = 0
    /\ lock' = [lock EXCEPT ![cur[t].this] = t]
    /\ pc' = [pc EXCEPT ![t] = "gc_reread"]
    /\ UNCHANGED <<pool, methods, cstate, cur, fr, call, einfo, ret, ncalls, work, failed, finfo, fn>>

\* Mutant: the mutex is not released after the re-read.
GcReread_KeepsLock(t) ==
    /\ pc[t] = "gc_reread"
    /\ fr' = [fr EXCEPT ![t].tag = Tag(cur[t].this, fr[t].gidx),
                        ![t].name = Data(cur[t].this, fr[t].gidx)]
    /\ UNCHANGED lock
    /\ pc' = [pc EXCEPT ![t] = IF Tag(cur[t].this, fr[t].gidx) = "CONSTANT_ResolvedClass"
                               THEN "gc_check" ELSE "gc_load"]
    /\ UNCHANGED <<pool, methods, cstate, cur, call, einfo, ret, ncalls, work, failed, finfo, fn>>

\* tag = pool->tags[idx]; name = WORD2UTF(pool->data[idx]); unlockMutex(...);
\* the test of the local tag that follows picks the next statement.
GcReread(t) ==
    /\ pc[t] = "gc_reread"
    /\ fr' = [fr EXCEPT ![t].tag = Tag(cur[t].this, fr[t].gidx),
                        ![t].name = Data(cur[t].this, fr[t].gidx)]
    /\ lock' = [lock EXCEPT ![cur[t].this] = 0]
    /\ pc' = [pc EXCEPT ![t] = IF Tag(cur[t].this, fr[t].gidx) = "CONSTANT_ResolvedClass"
                               THEN "gc_check" ELSE "gc_load"]
    /\ UNCHANGED <<pool, methods, cstate, cur, call, einfo, ret, ncalls, work, failed, finfo, fn>>

\* Mutant: a slot found resolved at the locked re-read is loaded again.
GcCheckResolved_LoadsAgain(t) ==
    /\ pc[t] = "gc_check"
    /\ pc' = [pc EXCEPT ![t] = "gc_load"]
    /\ UNCHANGED <<pool, lock, methods, cstate, cur, fr, call, einfo, ret, ncalls, work, failed, finfo, fn>>

\* if (tag == CONSTANT_ResolvedClass) return (CLASS_CLASS(idx, pool));
GcCheckResolved(t) ==
    /\ pc[t] = "gc_check"
    /\ fr' = [fr EXCEPT ![t].class = Data(cur[t].this, fr[t].gidx)]
    /\ GcReturn(t, Data(cur[t].this, fr[t].gidx))
    /\ UNCHANGED <<pool, lock, methods, cstate, cur, call, einfo, ncalls, work, failed, finfo, fn>>

\* The call of the loader through one of its two entry points.
CallLoader(entry, name, st) ==
    IF entry = "loadArray" THEN loadArray(name, st) ELSE loadClass(name, st)

\* if (name->data[0] == '[') loadArray(...) else loadClass(...)
GcEntryPoint(name) == IF name[1] = "[" THEN "loadArray" ELSE "loadClass"

\* The loader as getClass calls it.
GcLoader(name, st) == CallLoader(GcEntryPoint(name), name, st)

\* class = loadArray(...) or loadClass(name, this->loader, einfo)
GcLoad(t) ==
    /\ pc[t] = "gc_load"
    /\ \E r \in GcLoader(fr[t].name.u, cstate) :
         /\ fr' = [fr EXCEPT ![t].class = r.class,
                             ![t].entry = GcEntryPoint(fr[t].name.u)]
         /\ cstate' = r.cstate
         /\ einfo' = [einfo EXCEPT ![t] = IF r.class = WNull THEN r.einfo ELSE @]
    /\ pc' = [pc EXCEPT ![t] = "gc_loaded"]
    /\ UNCHANGED <<pool, lock, methods, cur, call, ret, ncalls, work, failed, finfo, fn>>

\* Mutant: a failed load is remembered in the slot.
GcPropagateFailure_MarksSlot(t) ==
    /\ pc[t] = "gc_loaded"
    /\ fr[t].class = WNull
    /\ GcReturn(t, WNull)
    /\ pool' = [pool EXCEPT ![cur[t].this][fr[t].gidx] = Slot("CONSTANT_Unknown", WNull)]
    /\ failed' = failed \cup {<<cur[t].this, fr[t].gidx>>}
    /\ UNCHANGED <<lock, methods, cstate, cur, fr, call, einfo, ncalls, work, finfo, fn>>

\* if (class == 0) return NULL;
GcPropagateFailure(t) ==
    /\ pc[t] = "gc_loaded"
    /\ fr[t].class = WNull
    /\ GcReturn(t, WNull)
    /\ failed' = failed \cup {<<cur[t].this, fr[t].gidx>>}
    /\ UNCHANGED <<pool, lock, methods, cstate, cur, fr, call, einfo, ncalls, work, finfo, fn>>

\* Mutant: the tag is stored before the payload.
SlotWrite_TagFirst(p, idx, class, n) ==
    IF n = 1 THEN [p EXCEPT ![idx].tag = "CONSTANT_ResolvedClass"]
    ELSE [p EXCEPT ![idx].data = class]

\* The two stores of getClass, in program order:
\*   pool->data[idx] = (ConstSlot)class; pool->tags[idx] = CONSTANT_ResolvedClass;
SlotWrite(p, idx, class, n) ==
    IF n = 1 THEN [p EXCEPT ![idx].data = class]
    ELSE [p EXCEPT ![idx].tag = "CONSTANT_ResolvedClass"]

\* Mutant: the payload is stored before the mutex is taken.
GcWriteData_Unlocked(t) ==
    /\ pc[t] = "gc_loaded"
    /\ fr[t].class # WNull
    /\ pool' = [pool EXCEPT ![cur[t].this] = SlotWrite(@, fr[t].gidx, fr[t].class, 1)]
    /\ pc' = [pc EXCEPT ![t] = "gc_wtag"]
    /\ UNCHANGED <<lock, methods, cstate, cur, fr, call, einfo, ret, ncalls, work, failed, finfo, fn>>

\* Mutant: the name is stored back instead of the class.
GcWriteData_StoresName(t) ==
    /\ pc[t] = "gc_loaded"
    /\ fr[t].class # WNull
    /\ lock[cur[t].this] = 0
    /\ lock' = [lock EXCEPT ![cur[t].this] = t]
    /\ pool' = [pool EXCEPT ![cur[t].this] = SlotWrite(@, fr[t].gidx, fr[t].name, 1)]
    /\ pc' = [pc EXCEPT ![t] = "gc_wtag"]
    /\ UNCHANGED <<methods, cstate, cur, fr, call, einfo, ret, ncalls, work, failed, finfo, fn>>

\* Mutant: the context class is stored instead of the loaded class.
GcWriteData_StoresThis(t) ==
    /\ pc[t] = "gc_loaded"
    /\ fr[t].class # WNull
    /\ lock[cur[t].this] = 0
    /\ lock' = [lock EXCEPT ![cur[t].this] = t]
    /\ pool' = [pool EXCEPT ![cur[t].this] = SlotWrite(@, fr[t].gidx, WClass(cur[t].this), 1)]
    /\ pc' = [pc EXCEPT ![t] = "gc_wtag"]
    /\ UNCHANGED <<methods, cstate, cur, fr, call, einfo, ret, ncalls, work, failed, finfo, fn>>

\* lockMutex(this->centry), second time; pool->data[idx] = (ConstSlot)class;
GcWriteData(t) ==
    /\ pc[t] = "gc_loaded"
    /\ fr[t].class # WNull
    /\ lock[cur[t].this] = 0
    /\ lock' = [lock EXCEPT ![cur[t].this] = t]
    /\ pool' = [pool EXCEPT ![cur[t].this] = SlotWrite(@, fr[t].gidx, fr[t].class, 1)]
    /\ pc' = [pc EXCEPT ![t] = "gc_wtag"]
    /\ UNCHANGED <<methods, cstate, cur, fr, call, einfo, ret, ncalls, work, failed, finfo, fn>>

\* Mutant: the mutex is not released after the slot is written.
GcWriteTag_KeepsLock(t) ==
    /\ pc[t] = "gc_wtag"
    /\ pool' = [pool EXCEPT ![cur[t].this] = SlotWrite(@, fr[t].gidx, fr[t].class, 2)]
    /\ GcReturn(t, fr[t].class)
    /\ UNCHANGED <<lock, methods, cstate, cur, fr, call, einfo, ncalls, work, failed, finfo, fn>>

\* pool->tags[idx] = CONSTANT_ResolvedClass; unlockMutex(...); return (class);
GcWriteTag(t) ==
    /\ pc[t] = "gc_wtag"
    /\ pool' = [pool EXCEPT ![cur[t].this] = SlotWrite(@, fr[t].gidx, fr[t].class, 2)]
    /\ lock' = [lock EXCEPT ![cur[t].this] = 0]
    /\ GcReturn(t, fr[t].class)
    /\ UNCHANGED <<methods, cstate, cur, fr, call, einfo, ncalls, work, failed, finfo, fn>>

\* The stores at lookup.c:194-195 are plain stores, and the reader of the fast
\* path (151-155) takes no lock: the two race, and nothing in the code orders
\* the stores for that reader.  Besides the program order of GcWriteData and
\* GcWriteTag, the tag can reach memory first: the next two steps are the
\* locked section with its stores taking effect in that order.
GcWriteTagFirst(t) ==
    /\ pc[t] = "gc_loaded"
    /\ fr[t].class # WNull
    /\ lock[cur[t].this] = 0
    /\ lock' = [lock EXCEPT ![cur[t].this] = t]
    /\ pool' = [pool EXCEPT ![cur[t].this][fr[t].gidx].tag = "CONSTANT_ResolvedClass"]
    /\ pc' = [pc EXCEPT ![t] = "gc_wdata"]
    /\ UNCHANGED <<methods, cstate, cur, fr, call, einfo, ret, ncalls, work, failed, finfo, fn>>

\* The payload store takes effect; unlockMutex(this->centry); return (class);
GcWriteDataLast(t) ==
    /\ pc[t] = "gc_wdata"
    /\ pool' = [pool EXCEPT ![cur[t].this][fr[t].gidx].data = fr[t].class]
    /\ lock' = [lock EXCEPT ![cur[t].this] = 0]
    /\ GcReturn(t, fr[t].class)
    /\ UNCHANGED <<methods, cstate, cur, fr, call, einfo, ncalls, work, failed, finfo, fn>>


\* ----------------------------------------------- getMethodSignatureClass
WithCounts(ci, sig) ==
    LET n == countInsAndOuts(sig)
    IN  [ci EXCEPT !.in = n.in, !.out = n.out, !.rettype = n.rettype]

\* Mutant: the loadClass argument is ignored.
StartGetMethodSignatureClass_AlwaysLoads(t) ==
    /\ CanStart(t)
    /\ \E c \in Inputs :
         /\ c.op = "getMethodSignatureClass"
         /\ cur' = [cur EXCEPT ![t] = c]
         /\ LET p == pool[c.this]
                ni == METHODREF_NAMEANDTYPE(c.idx, p)
                name == p[NAMEANDTYPE_NAME(ni, p)].data.u
                sig == p[NAMEANDTYPE_SIGNATURE(ni, p)].data.u
                named == [NoCall EXCEPT !.name = name, !.signature = sig]
            IN  IF p[c.idx].tag \notin {"CONSTANT_Methodref", "CONSTANT_InterfaceMethodref"}
                THEN /\ einfo' = [einfo EXCEPT ![t] =
                            postExceptionMessage("java.lang.NoSuchMethodError",
                                <<"method name unknown, tag = ", p[c.idx].tag>>)]
                     /\ call' = [call EXCEPT ![t] = NoCall]
                     /\ ret' = [ret EXCEPT ![t] = RetBool(FALSE)]
                     /\ fr' = [fr EXCEPT ![t] = NoFrame]
                     /\ pc' = [pc EXCEPT ![t] = "done"]
                ELSE IF TRUE
                THEN /\ call' = [call EXCEPT ![t] = named]
                     /\ GcReadTag(t, c, METHODREF_CLASS(c.idx, p))
                ELSE /\ einfo' = [einfo EXCEPT ![t] = NoError]
                     /\ call' = [call EXCEPT ![t] = WithCounts(named, sig)]
                     /\ ret' = [ret EXCEPT ![t] = RetBool(TRUE)]
                     /\ fr' = [fr EXCEPT ![t] = NoFrame]
                     /\ pc' = [pc EXCEPT ![t] = "done"]
    /\ ncalls' = ncalls + 1
    /\ UNCHANGED <<pool, lock, methods, cstate, work, failed, finfo, fn>>

\* Mutant: name and signature are stored before the tag is tested.
StartGetMethodSignatureClass_NamesFirst(t) ==
    /\ CanStart(t)
    /\ \E c \in Inputs :
         /\ c.op = "getMethodSignatureClass"
         /\ cur' = [cur EXCEPT ![t] = c]
         /\ LET p == pool[c.this]
                ni == METHODREF_NAMEANDTYPE(c.idx, p)
                name == p[NAMEANDTYPE_NAME(ni, p)].data.u
                sig == p[NAMEANDTYPE_SIGNATURE(ni, p)].data.u
                named == [NoCall EXCEPT !.name = name, !.signature = sig]
            IN  IF p[c.idx].tag \notin {"CONSTANT_Methodref", "CONSTANT_InterfaceMethodref"}
                THEN /\ einfo' = [einfo EXCEPT ![t] =
                            postExceptionMessage("java.lang.NoSuchMethodError",
                                <<"method name unknown, tag = ", p[c.idx].tag>>)]
                     /\ call' = [call EXCEPT ![t] = named]
                     /\ ret' = [ret EXCEPT ![t] = RetBool(FALSE)]
                     /\ fr' = [fr EXCEPT ![t] = NoFrame]
                     /\ pc' = [pc EXCEPT ![t] = "done"]
                ELSE IF c.loadClass
                THEN /\ call' = [call EXCEPT ![t] = named]
                     /\ GcReadTag(t, c, METHODREF_CLASS(c.idx, p))
                ELSE /\ einfo' = [einfo EXCEPT ![t] = NoError]
                     /\ call' = [call EXCEPT ![t] = WithCounts(named, sig)]
                     /\ ret' = [ret EXCEPT ![t] = RetBool(TRUE)]
                     /\ fr' = [fr EXCEPT ![t] = NoFrame]
                     /\ pc' = [pc EXCEPT ![t] = "done"]
    /\ ncalls' = ncalls + 1
    /\ UNCHANGED <<pool, lock, methods, cstate, work, failed, finfo, fn>>

\* Entry of getMethodSignatureClass up to the first statement of its call of
\* getClass.
StartGetMethodSignatureClass(t) ==
    /\ CanStart(t)
    /\ \E c \in Inputs :
         /\ c.op = "getMethodSignatureClass"
         /\ cur' = [cur EXCEPT ![t] = c]
         /\ LET p == pool[c.this]
                ni == METHODREF_NAMEANDTYPE(c.idx, p)
                name == p[NAMEANDTYPE_NAME(ni, p)].data.u
                sig == p[NAMEANDTYPE_SIGNATURE(ni, p)].data.u
                named == [NoCall EXCEPT !.name = name, !.signature = sig]
            IN  IF p[c.idx].tag \notin {"CONSTANT_Methodref", "CONSTANT_InterfaceMethodref"}
                THEN /\ einfo' = [einfo EXCEPT ![t] =
                            postExceptionMessage("java.lang.NoSuchMethodError",
                                <<"method name unknown, tag = ", p[c.idx].tag>>)]
                     /\ call' = [call EXCEPT ![t] = NoCall]
                     /\ ret' = [ret EXCEPT ![t] = RetBool(FALSE)]
                     /\ fr' = [fr EXCEPT ![t] = NoFrame]
                     /\ pc' = [pc EXCEPT ![t] = "done"]
                ELSE IF c.loadClass
                THEN /\ call' = [call EXCEPT ![t] = named]
                     /\ GcReadTag(t, c, METHODREF_CLASS(c.idx, p))
                ELSE /\ einfo' = [einfo EXCEPT ![t] = NoError]
                     /\ call' = [call EXCEPT ![t] = WithCounts(named, sig)]
                     /\ ret' = [ret EXCEPT ![t] = RetBool(TRUE)]
                     /\ fr' = [fr EXCEPT ![t] = NoFrame]
                     /\ pc' = [pc EXCEPT ![t] = "done"]
    /\ ncalls' = ncalls + 1
    /\ UNCHANGED <<pool, lock, methods, cstate, work, failed, finfo, fn>>

\* Mutant: the failure path clears the binding.
MsClassFailed_DropsName(t) ==
    /\ pc[t] = "ms_ret"
    /\ fr[t].class = WNull
    /\ call' = [call EXCEPT ![t] =
          [NoCall EXCEPT !.cname = Data(cur[t].this, fr[t].gidx)]]
    /\ ret' = [ret EXCEPT ![t] = RetBool(FALSE)]
    /\ pc' = [pc EXCEPT ![t] = "done"]
    /\ UNCHANGED <<pool, lock, methods, cstate, cur, fr, einfo, ncalls, work, failed, finfo, fn>>

\* if (class == NULL) { call->cname = WORD2UTF(pool->data[ci]); ...; return (false); }
MsClassFailed(t) ==
    /\ pc[t] = "ms_ret"
    /\ fr[t].class = WNull
    /\ call' = [call EXCEPT ![t] =
          WithCounts([@ EXCEPT !.cname = Data(cur[t].this, fr[t].gidx)], @.signature)]
    /\ ret' = [ret EXCEPT ![t] = RetBool(FALSE)]
    /\ pc' = [pc EXCEPT ![t] = "done"]
    /\ UNCHANGED <<pool, lock, methods, cstate, cur, fr, einfo, ncalls, work, failed, finfo, fn>>

\* assert(class->state >= CSTATE_LINKED) fails in a build that keeps assertions:
\* abort() ends the process, all its threads and its mutexes with it.
MsAssertFails(t) ==
    /\ pc[t] = "ms_ret"
    /\ fr[t].class # WNull
    /\ fr[t].class.k # "class" \/ cstate[fr[t].class.c] < CSTATE_LINKED
    /\ pc' = [u \in Threads |-> "aborted"]
    /\ lock' = [c \in Contexts |-> 0]
    /\ UNCHANGED <<pool, methods, cstate, cur, fr, call, einfo, ret, ncalls, work, failed, finfo, fn>>

\* The end of a method search that found mptr (NoMethod if none).
MsFinish(t, ci, mptr) ==
    /\ call' = [call EXCEPT ![t] = WithCounts([ci EXCEPT !.method = mptr], ci.signature)]
    /\ ret' = [ret EXCEPT ![t] = RetBool(TRUE)]
    /\ pc' = [pc EXCEPT ![t] = "done"]

\* Mutant: a missing method posts NoSuchMethodError, as findMethod does.
MsResolved_MissingIsError(t) ==
    /\ pc[t] = "ms_ret"
    /\ fr[t].class.k = "class"
    /\ LET c == cur[t]
           root == SearchRoot(fr[t].class.c, c.this, call[t].name, c.isSpecial)
           ci == [call[t] EXCEPT !.class = WClass(root), !.cname = WUtf(className[root]),
                                 !.method = NoMethod]
           mptr == SearchMethod(methods, root, call[t].name, call[t].signature, c.isSpecial)
       IN  IF NeedsTrap(methods, mptr)
           THEN /\ call' = [call EXCEPT ![t] = ci]
                /\ fr' = [fr EXCEPT ![t].class = WClass(root), ![t].mptr = mptr]
                /\ pc' = [pc EXCEPT ![t] = "fl_ncode"]
                /\ UNCHANGED ret
           ELSE /\ MsFinish(t, ci, mptr)
                /\ fr' = [fr EXCEPT ![t].class = WClass(root), ![t].mptr = mptr]
    /\ einfo' = [einfo EXCEPT ![t] =
          IF SearchMethod(methods,
                 SearchRoot(fr[t].class.c, cur[t].this, call[t].name, cur[t].isSpecial),
                 call[t].name, call[t].signature, cur[t].isSpecial) = NoMethod
          THEN postExceptionMessage("java.lang.NoSuchMethodError", call[t].name)
          ELSE @]
    /\ UNCHANGED <<pool, lock, methods, cstate, cur, ncalls, work, failed, finfo, fn>>

\* Mutant: the class searched is initialised before the search.
MsResolved_Initialises(t) ==
    /\ pc[t] = "ms_ret"
    /\ fr[t].class.k = "class"
    /\ LET c == cur[t]
           root == SearchRoot(fr[t].class.c, c.this, call[t].name, c.isSpecial)
           ci == [call[t] EXCEPT !.class = WClass(root), !.cname = WUtf(className[root]),
                                 !.method = NoMethod]
           mptr == SearchMethod(methods, root, call[t].name, call[t].signature, c.isSpecial)
       IN  /\ cstate' = [cstate EXCEPT ![root] = CSTATE_COMPLETE]
           /\ IF NeedsTrap(methods, mptr)
              THEN /\ call' = [call EXCEPT ![t] = ci]
                   /\ fr' = [fr EXCEPT ![t].class = WClass(root), ![t].mptr = mptr]
                   /\ pc' = [pc EXCEPT ![t] = "fl_ncode"]
                   /\ UNCHANGED ret
              ELSE /\ MsFinish(t, ci, mptr)
                   /\ fr' = [fr EXCEPT ![t].class = WClass(root), ![t].mptr = mptr]
    /\ UNCHANGED <<pool, lock, methods, cur, einfo, ncalls, work, failed, finfo, fn>>

\* Mutant: call->class is assigned before the retargeting.
MsResolved_OwnerIsStatic(t) ==
    /\ pc[t] = "ms_ret"
    /\ fr[t].class.k = "class"
    /\ LET c == cur[t]
           root == SearchRoot(fr[t].class.c, c.this, call[t].name, c.isSpecial)
           ci == [call[t] EXCEPT !.class = fr[t].class,
                                 !.cname = WUtf(className[fr[t].class.c]),
                                 !.method = NoMethod]
           mptr == SearchMethod(methods, root, call[t].name, call[t].signature, c.isSpecial)
       IN  IF NeedsTrap(methods, mptr)
           THEN /\ call' = [call EXCEPT ![t] = ci]
                /\ fr' = [fr EXCEPT ![t].class = WClass(root), ![t].mptr = mptr]
                /\ pc' = [pc EXCEPT ![t] = "fl_ncode"]
                /\ UNCHANGED ret
           ELSE /\ MsFinish(t, ci, mptr)
                /\ fr' = [fr EXCEPT ![t].class = WClass(root), ![t].mptr = mptr]
    /\ UNCHANGED <<pool, lock, methods, cstate, cur, einfo, ncalls, work, failed, finfo, fn>>

\* What call->cname = class->name can leave in call->cname when class is NULL:
\* the read is of an address near 0.
NullRootNames == {WNull, WUtf(NoUtf)}

\* From the retargeting to the end of the search; the trap patch of
\* findMethodLocal, when the match needs one, is the next two steps.  With no
\* root (this->superclass is NULL) call->class = NULL is stored and class->name
\* dereferences NULL: the process dies of the signal, or the read yields some
\* word, the superclass loop is not entered and the call returns true.
MsResolved(t) ==
    /\ pc[t] = "ms_ret"
    /\ fr[t].class.k = "class"
    /\ LET c == cur[t]
           root == SearchRoot(fr[t].class.c, c.this, call[t].name, c.isSpecial)
       IN  IF root = NULL
           THEN \/ /\ pc' = [u \in Threads |-> "aborted"]
                   /\ lock' = [d \in Contexts |-> 0]
                   /\ call' = [call EXCEPT ![t].class = WNull, ![t].method = NoMethod]
                   /\ UNCHANGED <<fr, ret>>
                \/ \E w \in NullRootNames :
                      /\ MsFinish(t, [call[t] EXCEPT !.class = WNull, !.cname = w,
                                                     !.method = NoMethod], NoMethod)
                      /\ fr' = [fr EXCEPT ![t].class = WNull, ![t].mptr = NoMethod]
                      /\ UNCHANGED lock
           ELSE LET ci == [call[t] EXCEPT !.class = WClass(root),
                                          !.cname = WUtf(className[root]),
                                          !.method = NoMethod]
                    mptr == SearchMethod(methods, root, call[t].name, call[t].signature,
                                         c.isSpecial)
                IN  /\ IF NeedsTrap(methods, mptr)
                       THEN /\ call' = [call EXCEPT ![t] = ci]
                            /\ fr' = [fr EXCEPT ![t].class = WClass(root), ![t].mptr = mptr]
                            /\ pc' = [pc EXCEPT ![t] = "fl_ncode"]
                            /\ UNCHANGED ret
                       ELSE /\ MsFinish(t, ci, mptr)
                            /\ fr' = [fr EXCEPT ![t].class = WClass(root), ![t].mptr = mptr]
                    /\ UNCHANGED lock
    /\ UNCHANGED <<pool, methods, cstate, cur, einfo, ncalls, work, failed, finfo, fn>>

\* static void throwAbstractMethodError(void): what it throws.
throwAbstractMethodError == "java.lang.AbstractMethodError"

\* What a call through a method's native-code slot throws ("" if nothing the
\* resolver installed).
InvokeNcode(meth) ==
    IF meth.ncode = "throwAbstractMethodError" THEN throwAbstractMethodError ELSE ""

\* SET_METHOD_NATIVECODE(mptr, (void*)throwAbstractMethodError);
FlPatchNcode(t) ==
    /\ pc[t] = "fl_ncode"
    /\ methods' = [methods EXCEPT ![fr[t].mptr.c][fr[t].mptr.k].ncode =
                                        "throwAbstractMethodError"]
    /\ pc' = [pc EXCEPT ![t] = "fl_flags"]
    /\ UNCHANGED <<pool, lock, cstate, cur, fr, call, einfo, ret, ncalls, work, failed, finfo, fn>>

\* Mutant: the flags are overwritten by ACC_NATIVE instead of or-ed with it.
FlPatchFlags_Overwrites(t) ==
    /\ pc[t] = "fl_flags"
    /\ methods' = [methods EXCEPT ![fr[t].mptr.c][fr[t].mptr.k].accflags = {"ACC_NATIVE"}]
    /\ IF cur[t].op \in {"findMethod", "findMethodLocal"}
       THEN /\ ret' = [ret EXCEPT ![t] = RetMethod(fr[t].mptr)]
            /\ pc' = [pc EXCEPT ![t] = "done"]
            /\ UNCHANGED call
       ELSE MsFinish(t, call[t], fr[t].mptr)
    /\ UNCHANGED <<pool, lock, cstate, cur, fr, einfo, ncalls, work, failed, finfo, fn>>

\* mptr->accflags |= ACC_NATIVE; return (mptr); and the caller's use of it
FlPatchFlags(t) ==
    /\ pc[t] = "fl_flags"
    /\ methods' = [methods EXCEPT ![fr[t].mptr.c][fr[t].mptr.k].accflags =
                                        @ \cup {"ACC_NATIVE"}]
    /\ IF cur[t].op \in {"findMethod", "findMethodLocal"}
       THEN /\ ret' = [ret EXCEPT ![t] = RetMethod(fr[t].mptr)]
            /\ pc' = [pc EXCEPT ![t] = "done"]
            /\ UNCHANGED call
       ELSE MsFinish(t, call[t], fr[t].mptr)
    /\ UNCHANGED <<pool, lock, cstate, cur, fr, einfo, ncalls, work, failed, finfo, fn>>

\* Mutant: a method is matched by its name alone.
StartFindMethodLocal_NameOnly(t) ==
    /\ CanStart(t)
    /\ \E c \in Inputs :
         /\ c.op = "findMethodLocal"
         /\ cstate[c.class] # CSTATE_UNLOADED
         /\ cur' = [cur EXCEPT ![t] = c]
         /\ LET hits == {k \in 1..Len(methods[c.class]) :
                            methods[c.class][k].name = c.name}
                mptr == IF hits = {} THEN NoMethod
                        ELSE MethodPtr(c.class, CHOOSE k \in hits : \A j \in hits : k <= j)
            IN  /\ fr' = [fr EXCEPT ![t] = [NoFrame EXCEPT !.mptr = mptr]]
                /\ ret' = [ret EXCEPT ![t] = RetMethod(mptr)]
                /\ pc' = [pc EXCEPT ![t] = "done"]
    /\ call' = [call EXCEPT ![t] = NoCall]
    /\ einfo' = [einfo EXCEPT ![t] = NoError]
    /\ ncalls' = ncalls + 1
    /\ UNCHANGED <<pool, lock, methods, cstate, work, failed, finfo, fn>>

\* A direct call of findMethodLocal(class, name, signature): the scan of the
\* class's table up to the match or the return of NULL.
StartFindMethodLocal(t) ==
    /\ CanStart(t)
    /\ \E c \in Inputs :
         /\ c.op = "findMethodLocal"
         /\ cstate[c.class] # CSTATE_UNLOADED
         /\ cur' = [cur EXCEPT ![t] = c]
         /\ LET mptr == findMethodLocal(methods, c.class, c.name, c.sig)
            IN  /\ fr' = [fr EXCEPT ![t] = [NoFrame EXCEPT !.mptr = mptr]]
                /\ IF NeedsTrap(methods, mptr)
                   THEN /\ pc' = [pc EXCEPT ![t] = "fl_ncode"]
                        /\ ret' = [ret EXCEPT ![t] = NoRet]
                   ELSE /\ ret' = [ret EXCEPT ![t] = RetMethod(mptr)]
                        /\ pc' = [pc EXCEPT ![t] = "done"]
    /\ call' = [call EXCEPT ![t] = NoCall]
    /\ einfo' = [einfo EXCEPT ![t] = NoError]
    /\ ncalls' = ncalls + 1
    /\ UNCHANGED <<pool, lock, methods, cstate, work, failed, finfo, fn>>

\* ------------------------------------------------------------ findMethod
\* Entry of findMethod: if (class->state < CSTATE_USABLE)
StartFindMethod(t) ==
    /\ CanStart(t)
    /\ \E c \in Inputs :
         /\ c.op = "findMethod"
         /\ cstate[c.class] # CSTATE_UNLOADED
         /\ cur' = [cur EXCEPT ![t] = c]
         /\ pc' = [pc EXCEPT ![t] =
                IF cstate[c.class] < CSTATE_USABLE THEN "fm_process" ELSE "fm_search"]
    /\ fr' = [fr EXCEPT ![t] = NoFrame]
    /\ call' = [call EXCEPT ![t] = NoCall]
    /\ einfo' = [einfo EXCEPT ![t] = NoError]
    /\ ret' = [ret EXCEPT ![t] = NoRet]
    /\ ncalls' = ncalls + 1
    /\ UNCHANGED <<pool, lock, methods, cstate, work, failed, finfo, fn>>

\* Mutant: the search goes on after processClass has failed.
FmProcess_SearchesAnyway(t) ==
    /\ pc[t] = "fm_process"
    /\ \E r \in processClass(cur[t].class, cstate) :
         /\ cstate' = r.cstate
         /\ einfo' = [einfo EXCEPT ![t] = IF r.ok THEN @ ELSE r.einfo]
         /\ pc' = [pc EXCEPT ![t] = "fm_search"]
    /\ UNCHANGED <<pool, lock, methods, cur, fr, call, ret, ncalls, work, failed, finfo, fn>>

\* success = processClass(class, CSTATE_COMPLETE, einfo); if (!success) return (0);
FmProcess(t) ==
    /\ pc[t] = "fm_process"
    /\ \E r \in processClass(cur[t].class, cstate) :
         /\ cstate' = r.cstate
         /\ IF r.ok
            THEN /\ pc' = [pc EXCEPT ![t] = "fm_search"]
                 /\ UNCHANGED <<einfo, ret>>
            ELSE /\ einfo' = [einfo EXCEPT ![t] = r.einfo]
                 /\ ret' = [ret EXCEPT ![t] = RetMethod(NoMethod)]
                 /\ pc' = [pc EXCEPT ![t] = "done"]
    /\ UNCHANGED <<pool, lock, methods, cur, fr, call, ncalls, work, failed, finfo, fn>>

\* The superclass walk of findMethod and its NoSuchMethodError.
FmSearch(t) ==
    /\ pc[t] = "fm_search"
    /\ LET c == cur[t]
           mptr == SearchSuperclasses(methods, c.class, c.name, c.sig)
       IN  /\ fr' = [fr EXCEPT ![t].mptr = mptr]
           /\ IF mptr = NoMethod
              THEN /\ einfo' = [einfo EXCEPT ![t] =
                          postExceptionMessage("java.lang.NoSuchMethodError", c.name)]
                   /\ ret' = [ret EXCEPT ![t] = RetMethod(NoMethod)]
                   /\ pc' = [pc EXCEPT ![t] = "done"]
              ELSE IF NeedsTrap(methods, mptr)
              THEN /\ pc' = [pc EXCEPT ![t] = "fl_ncode"]
                   /\ UNCHANGED <<einfo, ret>>
              ELSE /\ ret' = [ret EXCEPT ![t] = RetMethod(mptr)]
                   /\ pc' = [pc EXCEPT ![t] = "done"]
                   /\ UNCHANGED einfo
    /\ UNCHANGED <<pool, lock, methods, cstate, cur, call, ncalls, work, failed, finfo, fn>>

\* -------------------------------------------------------------- getField
\* lookupClassField(class, name, isStatic, einfo) of classMethod.c: the field
\* of class's own table, static or instance as asked, with this name.
lookupClassField(class, name, isStatic) ==
    LET hits == {k \in 1..Len(fields0[class]) :
                    /\ utf8ConstEqual(name, fields0[class][k].name)
                    /\ fields0[class][k].static = isStatic}
    IN  IF hits = {} THEN NoField
        ELSE FieldPtr(class, CHOOSE k \in hits : \A j \in hits : k <= j)

RECURSIVE LookupFieldInChain(_, _, _)
\* The same lookup repeated up the superclass chain.
LookupFieldInChain(class, name, isStatic) ==
    IF class = NULL THEN NoField
    ELSE IF lookupClassField(class, name, isStatic) # NoField
    THEN lookupClassField(class, name, isStatic)
    ELSE LookupFieldInChain(superclass[class], name, isStatic)

\* Entry of getField up to the first statement of its call of getClass.
StartGetField(t) ==
    /\ CanStart(t)
    /\ \E c \in Inputs :
         /\ c.op = "getField"
         /\ cur' = [cur EXCEPT ![t] = c]
         /\ LET p == pool[c.this]
            IN  IF p[c.idx].tag # "CONSTANT_Fieldref"
                THEN /\ einfo' = [einfo EXCEPT ![t] =
                            postExceptionMessage("java.lang.NoSuchFieldError",
                                <<"tag was ", p[c.idx].tag>>)]
                     /\ ret' = [ret EXCEPT ![t] = RetBool(FALSE)]
                     /\ fr' = [fr EXCEPT ![t] = NoFrame]
                     /\ pc' = [pc EXCEPT ![t] = "done"]
                ELSE GcReadTag(t, c, FIELDREF_CLASS(c.idx, p))
    /\ call' = [call EXCEPT ![t] = NoCall]
    /\ ncalls' = ncalls + 1
    /\ UNCHANGED <<pool, lock, methods, cstate, work, failed, finfo, fn>>

\* Mutant: the field name and signature are stored before the class is tested.
GfClassFailed_StoresNames(t) ==
    /\ pc[t] = "gf_ret"
    /\ fr[t].class = WNull
    /\ ret' = [ret EXCEPT ![t] = RetBool(FALSE)]
    /\ pc' = [pc EXCEPT ![t] = "done"]
    /\ LET p == pool[cur[t].this]
           ni == FIELDREF_NAMEANDTYPE(cur[t].idx, p)
       IN  finfo' = [finfo EXCEPT ![t].name = p[NAMEANDTYPE_NAME(ni, p)].data.u,
                                  ![t].signature = p[NAMEANDTYPE_SIGNATURE(ni, p)].data.u]
    /\ UNCHANGED <<pool, lock, methods, cstate, cur, fr, call, einfo, ncalls, work, failed, fn>>

\* if (class == NULL) return (false);
GfClassFailed(t) ==
    /\ pc[t] = "gf_ret"
    /\ fr[t].class = WNull
    /\ ret' = [ret EXCEPT ![t] = RetBool(FALSE)]
    /\ pc' = [pc EXCEPT ![t] = "done"]
    /\ UNCHANGED <<pool, lock, methods, cstate, cur, fr, call, einfo, ncalls, work, failed, finfo, fn>>

\* The rest of getField with the field lookup given: cname, name and signature
\* are stored before the lookup, field and class after it has succeeded.
GfFinish(t, field) ==
    LET p == pool[cur[t].this]
        ni == FIELDREF_NAMEANDTYPE(cur[t].idx, p)
        named == [finfo[t] EXCEPT !.cname = WUtf(className[fr[t].class.c]),
                                  !.name = p[NAMEANDTYPE_NAME(ni, p)].data.u,
                                  !.signature = p[NAMEANDTYPE_SIGNATURE(ni, p)].data.u]
    IN  IF field = NoField
        THEN /\ finfo' = [finfo EXCEPT ![t] = named]
             /\ einfo' = [einfo EXCEPT ![t] =
                    postExceptionMessage("java.lang.NoSuchFieldError",
                                         p[NAMEANDTYPE_NAME(ni, p)].data.u)]
             /\ ret' = [ret EXCEPT ![t] = RetBool(FALSE)]
        ELSE /\ finfo' = [finfo EXCEPT ![t] =
                    [named EXCEPT !.field = field, !.class = fr[t].class]]
             /\ ret' = [ret EXCEPT ![t] = RetBool(TRUE)]
             /\ UNCHANGED einfo

\* Mutant: the field is looked for in the superclasses too.
GfLookup_WalksSuperclasses(t) ==
    /\ pc[t] = "gf_ret"
    /\ fr[t].class.k = "class"
    /\ LET p == pool[cur[t].this]
           ni == FIELDREF_NAMEANDTYPE(cur[t].idx, p)
       IN  GfFinish(t, LookupFieldInChain(fr[t].class.c, p[NAMEANDTYPE_NAME(ni, p)].data.u,
                                          cur[t].isStatic))
    /\ pc' = [pc EXCEPT ![t] = "done"]
    /\ UNCHANGED <<pool, lock, methods, cstate, cur, fr, call, ncalls, work, failed, fn>>

\* field = lookupClassField(class, name, isStatic, einfo) on the resolved class
\* and the two returns that follow it.
GfLookup(t) ==
    /\ pc[t] = "gf_ret"
    /\ fr[t].class.k = "class"
    /\ LET p == pool[cur[t].this]
           ni == FIELDREF_NAMEANDTYPE(cur[t].idx, p)
       IN  GfFinish(t, lookupClassField(fr[t].class.c, p[NAMEANDTYPE_NAME(ni, p)].data.u,
                                        cur[t].isStatic))
    /\ pc' = [pc EXCEPT ![t] = "done"]
    /\ UNCHANGED <<pool, lock, methods, cstate, cur, fr, call, ncalls, work, failed, fn>>

\* ------------------------------------------------ java_lang_Class_forName
U_qM == <<"q", "/", "M">>

\* classname2pathname(buf, buf): every '.' becomes '/'.
classname2pathname(s) == [i \in 1..Len(s) |-> IF s[i] = "." THEN "/" ELSE s[i]]

\* The element class of the array name "[L<element>;".
ElementName(name) == SubSeq(name, 3, Len(name) - 1)

\* forName branches on the kind and the message of the loader's descriptor,
\* so its runs draw from more of the loader's answers: a class that the named
\* class is linked with cannot be found (q/M stands for it), the class file is
\* malformed, the element class of an array cannot be found, and a class
\* that failed verification reports it again.
LoadFaults(name, st) ==
    LET c == NamedClass(name)
    IN  (IF c # NULL /\ name[1] # "[" /\ st[c] = CSTATE_UNLOADED
         THEN {LoadResult(WNull,
                          postExceptionMessage("java.lang.NoClassDefFoundError", U_qM), st),
               LoadResult(WNull, postExceptionMessage("java.lang.ClassFormatError", name),
                          [st EXCEPT ![c] = CSTATE_FAILED])}
         ELSE {})
        \cup
        (IF c = NULL /\ name[1] = "["
         THEN {LoadResult(WNull,
                          postExceptionMessage("java.lang.NoClassDefFoundError",
                                               ElementName(name)), st)}
         ELSE {})
        \cup
        (IF c # NULL /\ st[c] = CSTATE_FAILED
         THEN {LoadResult(WNull, postExceptionMessage("java.lang.VerifyError", name), st)}
         ELSE {})

\* postOutOfMemory(einfo)
postOutOfMemory == [type |-> "KERR_OUT_OF_MEMORY", classname |-> "", mess |-> NoUtf]

\* lookupClassEntry(name, loader, einfo): the entry of the name, made if there
\* is none yet; 0 with an error posted when it cannot be made.  loadClass has
\* made the entry of the name it was asked for; loadArray makes the entry of
\* an array name once its element class is loaded.  class is centry->class.
lookupClassEntry(name, st) ==
    LET c == NamedClass(name)
        class == IF c # NULL /\ st[c] # CSTATE_UNLOADED THEN c ELSE NULL
    IN  {[centry |-> "entry", class |-> class, posted |-> FALSE]}
        \cup
        (IF name[1] = "[" /\ class = NULL
         THEN {[centry |-> "0", class |-> NULL, posted |-> TRUE]}
         ELSE {})

\* A descriptor named id is written into einfo: what einfo held is lost when
\* einfo_copy does not hold it and it has not been discarded.
PostInto(f, id) ==
    [f EXCEPT !.made = @ \cup {id},
              !.lost = IF f.held # "" /\ f.held # f.copy /\ f.held \notin Range(f.discarded)
                       THEN @ \cup {f.held} ELSE @,
              !.held = id]

\* errorInfo einfo_copy = einfo;
CopyErrorInfo(f) == [f EXCEPT !.copy = f.held]

\* discardErrorInfo(&einfo_copy)
discardErrorInfo(f) == [f EXCEPT !.discarded = Append(@, f.copy)]

\* throwError(&einfo) with einfo = e; it does not return.
throwError(t, f, e) ==
    /\ fn' = [fn EXCEPT ![t] = [f EXCEPT !.thrown = Append(@, f.held), !.error = e]]
    /\ einfo' = [einfo EXCEPT ![t] = e]
    /\ ret' = [ret EXCEPT ![t] = NoRet]
    /\ pc' = [pc EXCEPT ![t] = "done"]

\* errorInfo einfo_copy = einfo;
\* postExceptionMessage(&einfo, JAVA_LANG(ClassNotFoundException), einfo.mess);
\* discardErrorInfo(&einfo_copy);
\* and the throwError that follows.
UpgradeAndThrow(t, f) ==
    throwError(t, discardErrorInfo(PostInto(CopyErrorInfo(f), "upgrade")),
               postExceptionMessage("java.lang.ClassNotFoundException", einfo[t].mess))

\* Mutant: forName always calls loadClass.
FnEntryPoint_LoadClassOnly(buf) == "loadClass"

\* if (buf[0] == '[') loadArray(...) else loadClass(...)
FnEntryPoint(buf) == IF buf[1] = "[" THEN "loadArray" ELSE "loadClass"

\* The loader as forName calls it.
FnLoader(buf, st) == CallLoader(FnEntryPoint(buf), buf, st)

\* Entry of forName up to the return of the loader.
StartForName(t) ==
    /\ CanStart(t)
    /\ \E c \in Inputs :
         /\ c.op = "forName"
         /\ cur' = [cur EXCEPT ![t] = c]
         /\ LET buf == classname2pathname(c.name)
                known == NamedClass(buf)
            IN  \E r \in FnLoader(buf, cstate) \cup LoadFaults(buf, cstate) :
                  /\ cstate' = r.cstate
                  /\ fr' = [fr EXCEPT ![t] = [NoFrame EXCEPT !.class = r.class]]
                  /\ einfo' = [einfo EXCEPT ![t] = r.einfo]
                  /\ fn' = [fn EXCEPT ![t] =
                        IF r.class = WNull
                        THEN [PostInto(NoForName, "loader") EXCEPT
                                 !.buf = buf, !.entry = FnEntryPoint(buf),
                                 !.loaded = r.einfo,
                                 !.wasFailed = known # NULL /\ cstate[known] = CSTATE_FAILED]
                        ELSE [NoForName EXCEPT !.buf = buf, !.entry = FnEntryPoint(buf)]]
                  /\ pc' = [pc EXCEPT ![t] =
                        IF r.class = WNull THEN "fn_failed" ELSE "fn_loaded"]
    /\ call' = [call EXCEPT ![t] = NoCall]
    /\ ret' = [ret EXCEPT ![t] = NoRet]
    /\ ncalls' = ncalls + 1
    /\ UNCHANGED <<pool, lock, methods, work, failed, finfo>>

\* Mutant: a VerifyError is thrown as the loader posted it.
FnVerifyError_Unchanged(t) ==
    /\ pc[t] = "fn_failed"
    /\ einfo[t].type = "KERR_EXCEPTION"
    /\ einfo[t].classname = "java.lang.VerifyError"
    /\ throwError(t, fn[t], einfo[t])
    /\ UNCHANGED <<pool, lock, methods, cstate, cur, fr, call, ncalls, work, failed, finfo>>

\* if ((einfo.type & KERR_EXCEPTION) && !strcmp(einfo.classname, "java.lang.VerifyError"))
FnVerifyError(t) ==
    /\ pc[t] = "fn_failed"
    /\ einfo[t].type = "KERR_EXCEPTION"
    /\ einfo[t].classname = "java.lang.VerifyError"
    /\ UpgradeAndThrow(t, fn[t])
    /\ UNCHANGED <<pool, lock, methods, cstate, cur, fr, call, ncalls, work, failed, finfo>>

\* The NoClassDefFoundError branch after lookupClassEntry has answered r;
\* upgrade says whether the descriptor is upgraded when the entry allows it.
NotFoundBranch(t, r, upgrade) ==
    LET f == IF r.posted THEN PostInto(fn[t], "lookup") ELSE fn[t]
        e == IF r.posted THEN postOutOfMemory ELSE einfo[t]
        g == [f EXCEPT !.centry =
                 IF r.centry = "0" THEN "0"
                 ELSE IF r.class # NULL /\ cstate[r.class] = CSTATE_FAILED THEN "FAILED"
                 ELSE "entry"]
    IN  IF g.centry \in {"0", "FAILED"}
        THEN throwError(t, g, e)
        ELSE IF upgrade
        THEN UpgradeAndThrow(t, g)
        ELSE throwError(t, g, e)

\* Mutant: every NoClassDefFoundError is upgraded when the entry allows it.
FnNotFound_AlwaysUpgrades(t) ==
    /\ pc[t] = "fn_failed"
    /\ einfo[t].type = "KERR_EXCEPTION"
    /\ einfo[t].classname = "java.lang.NoClassDefFoundError"
    /\ \E r \in lookupClassEntry(fn[t].buf, cstate) : NotFoundBranch(t, r, TRUE)
    /\ UNCHANGED <<pool, lock, methods, cstate, cur, fr, call, ncalls, work, failed, finfo>>

\* else if ((einfo.type & KERR_EXCEPTION) &&
\*          !strcmp(einfo.classname, "java.lang.NoClassDefFoundError"))
\* with centry = lookupClassEntry(utf8buf, loader, &einfo), the throw for no
\* entry or a FAILED class, and the upgrade under
\*   buf[0] == '[' || !strcmp(einfo.mess, buf)
FnNotFound(t) ==
    /\ pc[t] = "fn_failed"
    /\ einfo[t].type = "KERR_EXCEPTION"
    /\ einfo[t].classname = "java.lang.NoClassDefFoundError"
    /\ \E r \in lookupClassEntry(fn[t].buf, cstate) :
         NotFoundBranch(t, r, fn[t].buf[1] = "[" \/ einfo[t].mess = fn[t].buf)
    /\ UNCHANGED <<pool, lock, methods, cstate, cur, fr, call, ncalls, work, failed, finfo>>

\* Any other descriptor is thrown as it is.
FnOtherError(t) ==
    /\ pc[t] = "fn_failed"
    /\ ~ /\ einfo[t].type = "KERR_EXCEPTION"
         /\ einfo[t].classname \in {"java.lang.VerifyError", "java.lang.NoClassDefFoundError"}
    /\ throwError(t, fn[t], einfo[t])
    /\ UNCHANGED <<pool, lock, methods, cstate, cur, fr, call, ncalls, work, failed, finfo>>

\* if (doinit && processClass(clazz, CSTATE_COMPLETE, &einfo) == false)
\*     throwError(&einfo);
\* return (clazz);
FnInit(t) ==
    /\ pc[t] = "fn_loaded"
    /\ IF cur[t].doinit
       THEN \E r \in processClass(fr[t].class.c, cstate) :
              /\ cstate' = r.cstate
              /\ IF r.ok
                 THEN /\ ret' = [ret EXCEPT ![t] = RetClass(fr[t].class)]
                      /\ pc' = [pc EXCEPT ![t] = "done"]
                      /\ UNCHANGED <<einfo, fn>>
                 ELSE throwError(t, PostInto(fn[t], "init"), r.einfo)
       ELSE /\ ret' = [ret EXCEPT ![t] = RetClass(fr[t].class)]
            /\ pc' = [pc EXCEPT ![t] = "done"]
            /\ UNCHANGED <<cstate, einfo, fn>>
    /\ UNCHANGED <<pool, lock, methods, cur, fr, call, ncalls, work, failed, finfo>>

\* ------------------------------------------------------------ the system
Next ==
    \E t \in Threads :
         \/ StartGetClass(t)
         \/ GcFastPath(t)
         \/ GcLockRead(t)
         \/ GcReread(t)
         \/ GcCheckResolved(t)
         \/ GcLoad(t)
         \/ GcPropagateFailure(t)
         \/ GcWriteData(t)
         \/ GcWriteTag(t)
         \/ StartGetMethodSignatureClass(t)
         \/ MsClassFailed(t)
         \/ MsAssertFails(t)
         \/ MsResolved(t)
         \/ FlPatchNcode(t)
         \/ FlPatchFlags(t)
         \/ StartFindMethod(t)
         \/ FmProcess(t)
         \/ FmSearch(t)

Spec == Init /\ [][Next]_vars

\* The threads of a run with getField.
NextField ==
    \E t \in Threads :
         \/ StartGetClass(t)
         \/ GcFastPath(t)
         \/ GcLockRead(t)
         \/ GcReread(t)
         \/ GcCheckResolved(t)
         \/ GcLoad(t)
         \/ GcPropagateFailure(t)
         \/ GcWriteData(t)
         \/ GcWriteTag(t)
         \/ StartGetMethodSignatureClass(t)
         \/ StartGetField(t)
         \/ GfClassFailed(t)
         \/ GfLookup(t)

SpecField == InitField /\ [][NextField]_vars


\* The threads of a run of forName.
NextForName ==
    \E t \in Threads :
         \/ StartForName(t)
         \/ FnVerifyError(t)
         \/ FnNotFound(t)
         \/ FnOtherError(t)
         \/ FnInit(t)

SpecForName == InitForName /\ [][NextForName]_vars

\* The threads of a run of getClass and forName.
NextLoader ==
    \E t \in Threads :
         \/ StartGetClass(t)
         \/ GcFastPath(t)
         \/ GcLockRead(t)
         \/ GcReread(t)
         \/ GcCheckResolved(t)
         \/ GcLoad(t)
         \/ GcPropagateFailure(t)
         \/ GcWriteData(t)
         \/ GcWriteTag(t)
         \/ StartForName(t)
         \/ FnVerifyError(t)
         \/ FnNotFound(t)
         \/ FnOtherError(t)
         \/ FnInit(t)

SpecLoader == InitLoader /\ [][NextLoader]_vars

\* The threads of a run of getClass, getMethodSignatureClass and getField.
NextMixed ==
    \E t \in Threads :
         \/ StartGetClass(t)
         \/ GcFastPath(t)
         \/ GcLockRead(t)
         \/ GcReread(t)
         \/ GcCheckResolved(t)
         \/ GcLoad(t)
         \/ GcPropagateFailure(t)
         \/ GcWriteData(t)
         \/ GcWriteTag(t)
         \/ StartGetMethodSignatureClass(t)
         \/ MsClassFailed(t)
         \/ MsResolved(t)
         \/ FlPatchNcode(t)
         \/ FlPatchFlags(t)
         \/ StartGetField(t)
         \/ GfClassFailed(t)
         \/ GfLookup(t)

\* The steps by which thread t goes on with the call it is in.
Continue(t) ==
    \/ GcFastPath(t)
    \/ GcLockRead(t)
    \/ GcReread(t)
    \/ GcCheckResolved(t)
    \/ GcLoad(t)
    \/ GcPropagateFailure(t)
    \/ GcWriteData(t)
    \/ GcWriteTag(t)
    \/ MsClassFailed(t)
    \/ MsResolved(t)
    \/ FlPatchNcode(t)
    \/ FlPatchFlags(t)
    \/ GfClassFailed(t)
    \/ GfLookup(t)

\* Fair scheduling: a thread that can go on does; a loader call returns
\* (GcLoad is enabled whenever a thread is in it).
SpecMixed == InitMixed /\ [][NextMixed]_vars /\ \A t \in Threads : WF_vars(Continue(t))

\* The threads of a run of eager getMethodSignatureClass in the contexts A and C.
NextRoot ==
    \E t \in Threads :
         \/ GcFastPath(t)
         \/ GcLockRead(t)
         \/ GcReread(t)
         \/ GcCheckResolved(t)
         \/ GcLoad(t)
         \/ GcPropagateFailure(t)
         \/ GcWriteData(t)
         \/ GcWriteTag(t)
         \/ StartGetMethodSignatureClass(t)
         \/ MsClassFailed(t)
         \/ MsResolved(t)
         \/ FlPatchNcode(t)
         \/ FlPatchFlags(t)

SpecRoot == InitRoot /\ [][NextRoot]_vars

\* The threads of a run of getClass on a machine that does not keep the order
\* of the two stores for a reader without the lock.
NextRace ==
    \E t \in Threads :
         \/ StartGetClass(t)
         \/ GcFastPath(t)
         \/ GcLockRead(t)
         \/ GcReread(t)
         \/ GcCheckResolved(t)
         \/ GcLoad(t)
         \/ GcPropagateFailure(t)
         \/ GcWriteData(t)
         \/ GcWriteTag(t)
         \/ GcWriteTagFirst(t)
         \/ GcWriteDataLast(t)

SpecRace == InitRace /\ [][NextRace]_vars

\* The threads of a run of findMethodLocal.
NextLocal ==
    \E t \in Threads :
         \/ StartFindMethodLocal(t)
         \/ FlPatchNcode(t)
         \/ FlPatchFlags(t)

SpecLocal == InitLocal /\ [][NextLocal]_vars

\* ================================================================ properties
Done(t) == pc[t] = "done"
Quiet == \A t \in Threads : pc[t] \in {"idle", "done"}

\* Thread t, and no other, moved in this step.
Moved(t) == pc'[t] # pc[t] /\ \A u \in Threads \ {t} : pc'[u] = pc[u]

\* A call was started in this step, and not by a thread other than t.
Started(t) ==
    /\ ncalls' = ncalls + 1
    /\ pc[t] \in {"idle", "done"}
    /\ \A u \in Threads \ {t} :
         <<pc[u], cur[u], fr[u], call[u], ret[u], einfo[u]>>'
            = <<pc[u], cur[u], fr[u], call[u], ret[u], einfo[u]>>

ResolvedSlot(this, idx) == pool[this][idx].tag = "CONSTANT_ResolvedClass"

\* What a method reference says, read from the pool as the class file gave it.
ValidMethodTag(c) ==
    pool0[c.this][c.idx].tag \in {"CONSTANT_Methodref", "CONSTANT_InterfaceMethodref"}
RefNameAndType(c) == pool0[c.this][c.idx].data.hi
RefName(c) == pool0[c.this][pool0[c.this][RefNameAndType(c)].data.lo].data.u
RefSig(c) == pool0[c.this][pool0[c.this][RefNameAndType(c)].data.hi].data.u
RefClassIdx(c) == pool0[c.this][c.idx].data.lo
RefClass(c) == NamedClass(pool0[c.this][RefClassIdx(c)].data.u)

IsMethodCall(c) == c.op = "getMethodSignatureClass" /\ ValidMethodTag(c)
GetClassOk(t) == Done(t) /\ cur[t].op = "getClass" /\ ret[t].w # WNull
EagerDone(t) == Done(t) /\ IsMethodCall(cur[t]) /\ cur[t].loadClass
\* The thread went through the locked re-read, found the slot unresolved and
\* called the loader itself.
Loaded(t) == fr[t].tag = "CONSTANT_Class"

\* C1: once a slot's tag is ResolvedClass, neither its tag nor its payload
\* changes in any later step, whatever the threads do.
C1_WriteOnce ==
    [][\A c \in Contexts : \A i \in 1..Len(pool[c]) :
          ResolvedSlot(c, i) => pool'[c][i] = pool[c][i]]_vars

\* C1 witness: a second writer has stored into a slot that is already resolved.
C1_Witness ==
    \E t \in Threads : pc[t] = "gc_wtag" /\ ResolvedSlot(cur[t].this, fr[t].gidx)

\* C2: all successful getClass calls on one slot return the same class handle,
\* and once every call has returned the slot holds that handle.
C2_Convergence ==
    /\ \A t, u \in Threads :
         (GetClassOk(t) /\ GetClassOk(u) /\ cur[t] = cur[u]) => ret[t].w = ret[u].w
    /\ Quiet =>
         \A t \in Threads :
            GetClassOk(t) =>
               pool[cur[t].this][cur[t].idx] = Slot("CONSTANT_ResolvedClass", ret[t].w)

\* C2 witness: two threads raced through the loader on the same slot and both
\* have returned a class.
C2_Witness ==
    \E t, u \in Threads :
       /\ t # u /\ GetClassOk(t) /\ GetClassOk(u) /\ cur[t] = cur[u]
       /\ Loaded(t) /\ Loaded(u)

\* C3 as stated: all threads that resolved the same method reference eagerly
\* hold the same owning class and the same method.
C3_AllBindingsEqual ==
    \A t, u \in Threads :
       (EagerDone(t) /\ EagerDone(u) /\ cur[t] = cur[u]) =>
          call[t].class = call[u].class /\ call[t].method = call[u].method

\* C3 amended: all threads whose eager resolution of the same method reference
\* returned true hold the same owning class and the same method.
C3_SuccessfulBindingsEqual ==
    \A t, u \in Threads :
       (EagerDone(t) /\ EagerDone(u) /\ cur[t] = cur[u] /\ ret[t].b /\ ret[u].b) =>
          call[t].class = call[u].class /\ call[t].method = call[u].method

\* C3 witness: two threads raced through the loader for the same reference and
\* both returned true with a method.
C3_Witness ==
    \E t, u \in Threads :
       /\ t # u /\ EagerDone(t) /\ EagerDone(u) /\ cur[t] = cur[u]
       /\ ret[t].b /\ ret[u].b /\ Loaded(t) /\ Loaded(u)
       /\ call[t].method # NoMethod

\* C4: a context's lock is held only by a thread that is between lockMutex and
\* unlockMutex of the re-read or of the slot write of a getClass on that
\* context: never during the loader call, never after a return.
C4_LockScope ==
    \A c \in Contexts :
       lock[c] # 0 =>
          /\ pc[lock[c]] \in {"gc_reread", "gc_wtag"}
          /\ cur[lock[c]].this = c

\* C4 witness: one thread is in the loader call while another holds the lock
\* of the same context.
C4_Witness ==
    \E t, u \in Threads :
       t # u /\ pc[t] = "gc_load" /\ lock[cur[t].this] = u

\* C5: the step by which getClass returns after a failed load writes no slot,
\* returns NULL and leaves the loader's error descriptor as the loader set it.
C5_NoFailureCaching ==
    [][\A t \in Threads :
          (pc[t] = "gc_loaded" /\ fr[t].class = WNull /\ Moved(t)) =>
             /\ pool' = pool
             /\ einfo[t].type = "KERR_EXCEPTION"
             /\ einfo'[t] = einfo[t]
             /\ fr'[t].class = WNull
             /\ cur[t].op = "getClass" => pc'[t] = "done" /\ ret'[t] = RetClass(WNull)
             /\ cur[t].op # "getClass" => pc'[t] = "ms_ret"]_vars

\* C5 witness: a getClass that began after a loader failure had been returned
\* for its slot called the loader again and returned the class.
C5_Witness ==
    \E t \in Threads :
       GetClassOk(t) /\ fr[t].retry /\ Loaded(t) /\ ret[t].w.k = "class"

\* C6: at the step by which getClass returns a class, that class is at least
\* LINKED.
C6_ReturnedClassLinked ==
    [][\A t \in Threads :
          (/\ pc[t] \in {"gc_fast", "gc_check", "gc_wtag"}
           /\ Moved(t)
           /\ pc'[t] \in {"done", "ms_ret"}
           /\ fr'[t].class.k = "class") =>
             cstate'[fr'[t].class.c] >= CSTATE_LINKED]_vars

\* C7: an eager resolution whose class failed to resolve returns false with
\* class and method absent and with the reference's name and signature.
C7_PartialSuccess ==
    \A t \in Threads :
       (EagerDone(t) /\ fr[t].class = WNull) =>
          /\ ret[t] = RetBool(FALSE)
          /\ call[t].class = WNull
          /\ call[t].method = NoMethod
          /\ call[t].name = RefName(cur[t]) /\ call[t].name # NoUtf
          /\ call[t].signature = RefSig(cur[t]) /\ call[t].signature # NoUtf

\* C7 witness: an eager resolution has returned after the loader failed.
C7_Witness ==
    \E t \in Threads :
       /\ EagerDone(t) /\ fr[t].class = WNull
       /\ einfo[t].classname = "java.lang.NoClassDefFoundError"

\* C8: a non-eager resolution of a method reference is one step that returns
\* true with name and signature, without class or method, and changes no
\* pool slot, lock, method record or class state.
C8_NonEager ==
    [][\A t \in Threads :
          (Started(t) /\ IsMethodCall(cur'[t]) /\ ~cur'[t].loadClass) =>
             /\ pc'[t] = "done"
             /\ ret'[t] = RetBool(TRUE)
             /\ call'[t].name = RefName(cur'[t])
             /\ call'[t].signature = RefSig(cur'[t])
             /\ call'[t].class = WNull
             /\ call'[t].method = NoMethod
             /\ fr'[t] = NoFrame
             /\ UNCHANGED <<pool, lock, methods, cstate>>]_vars

\* C8 witness: a non-eager resolution has returned true and the class slot of
\* its reference is still unresolved.
C8_Witness ==
    \E t \in Threads :
       /\ Done(t) /\ IsMethodCall(cur[t]) /\ ~cur[t].loadClass /\ ret[t].b
       /\ call[t].name # NoUtf
       /\ pool[cur[t].this][RefClassIdx(cur[t])].tag = "CONSTANT_Class"

\* Class d declares a method with this name and signature.
Declares(d, n, sg) ==
    \E k \in 1..Len(methods0[d]) : methods0[d][k].name = n /\ methods0[d][k].sig = sg

\* The classes a search from root looks at.
Searched(root, isSpecial) ==
    Range(SuperChain(root)) \cup (IF isSpecial = 2 THEN Range(interfaces[root]) ELSE {})

\* C9: when the class resolves and no class searched declares the method, the
\* call returns true with the owning class, without a method and without error.
C9_MissingMethodIsNoFailure ==
    \A t \in Threads :
       (/\ EagerDone(t)
        /\ fr[t].class.k = "class"
        /\ \A d \in Searched(fr[t].class.c, cur[t].isSpecial) :
              ~Declares(d, RefName(cur[t]), RefSig(cur[t]))) =>
          /\ ret[t] = RetBool(TRUE)
          /\ call[t].class.k = "class"
          /\ call[t].method = NoMethod
          /\ einfo[t] = NoError

\* C9 witness: a special-2 resolution searched a class with interfaces, found
\* nothing and returned.
C9_Witness ==
    \E t \in Threads :
       /\ EagerDone(t) /\ fr[t].class.k = "class" /\ cur[t].isSpecial = 2
       /\ interfaces[fr[t].class.c] # <<>>
       /\ call[t].method = NoMethod

\* The root the claim prescribes for a reference of this to class resolved.
ExpectedRoot(c) ==
    IF /\ c.isSpecial = 1
       /\ RefName(c) # constructor_name
       /\ RefClass(c) # c.this
       /\ instanceof(RefClass(c), c.this)
    THEN superclass[c.this]
    ELSE RefClass(c)

\* C10: the search starts at the context's superclass exactly under the four
\* special-1 conditions and at the resolved class otherwise, and the method
\* found is the nearest one from there; C's special-1 reference to B.f()V
\* yields B's f.
C10_Retarget ==
    \A t \in Threads :
       (EagerDone(t) /\ fr[t].class.k = "class") =>
          /\ fr[t].class.c = ExpectedRoot(cur[t])
          /\ cur[t].isSpecial # 2 =>
                call[t].method =
                   SearchSuperclasses(methods0, ExpectedRoot(cur[t]),
                                      RefName(cur[t]), RefSig(cur[t]))
          /\ (cur[t].this = "C" /\ cur[t].idx = 16 /\ cur[t].isSpecial = 1) =>
                call[t].method = MethodPtr("B", 2)

\* C10 witness: C's special-1 reference to B.f()V has been resolved to B's f.
C10_Witness ==
    \E t \in Threads :
       /\ EagerDone(t) /\ cur[t].this = "C" /\ cur[t].idx = 16 /\ cur[t].isSpecial = 1
       /\ call[t].method = MethodPtr("B", 2)

\* The call of thread t is an eager method resolution that returned true.
EagerOk(t) == EagerDone(t) /\ ret[t] = RetBool(TRUE)

\* C11 as stated: the owning class of every successful eager binding is the
\* class resolved from the reference's class slot.
C11_OwnerIsStaticClass ==
    \A t \in Threads :
       EagerOk(t) => call[t].class = WClass(RefClass(cur[t]))

\* C11 amended: the owning class of every successful eager binding is the
\* search root: the context's superclass when the special-1 retargeting
\* applies, the class resolved from the reference's class slot otherwise;
\* its name is the binding's cname.
C11_OwnerIsSearchRoot ==
    \A t \in Threads :
       EagerOk(t) =>
          /\ call[t].class = WClass(ExpectedRoot(cur[t]))
          /\ call[t].cname = WUtf(className[ExpectedRoot(cur[t])])
          /\ ExpectedRoot(cur[t]) # RefClass(cur[t]) =>
                /\ cur[t].isSpecial = 1
                /\ ExpectedRoot(cur[t]) = superclass[cur[t].this]

\* C11 witness: a special-1 resolution was retargeted and found its method in
\* the retargeted root, which is not the class the reference names.
C11_Witness ==
    \E t \in Threads :
       /\ EagerOk(t) /\ cur[t].isSpecial = 1
       /\ ExpectedRoot(cur[t]) # RefClass(cur[t])
       /\ call[t].method # NoMethod
       /\ call[t].class = WClass(superclass[cur[t].this])

\* The positions of root's interface table whose interface declares the method
\* call c refers to.
DeclaringInterfaces(root, c) ==
    {i \in 1..total_interface_len[root] :
        Declares(interfaces[root][i], RefName(c), RefSig(c))}

\* The special-2 call of thread t found nothing in the superclass chain.
FellBackToInterfaces(t) ==
    /\ EagerOk(t) /\ cur[t].isSpecial = 2
    /\ \A d \in Range(SuperChain(call[t].class.c)) :
          ~Declares(d, RefName(cur[t]), RefSig(cur[t]))

\* C12 as stated: the special-2 fallback finds a method only in a direct
\* interface of the resolved class; X's reference to g()V finds none.
C12_DirectInterfacesOnly ==
    \A t \in Threads :
       FellBackToInterfaces(t) =>
          /\ call[t].method # NoMethod =>
                \E i \in 1..interface_len[call[t].class.c] :
                   call[t].method.c = interfaces[call[t].class.c][i]
          /\ (cur[t].this = "X" /\ cur[t].idx = 5) => call[t].method = NoMethod

\* C12 amended: the special-2 fallback scans the whole interface table of the
\* resolved class, inherited interfaces included, from its last entry to its
\* first, and stops at the first match; X's reference to g()V finds J's g.
C12_AllInterfacesScanned ==
    \A t \in Threads :
       FellBackToInterfaces(t) =>
          LET root == call[t].class.c
              hits == DeclaringInterfaces(root, cur[t])
          IN  /\ hits = {} => call[t].method = NoMethod
              /\ hits # {} =>
                    /\ call[t].method # NoMethod
                    /\ \E i \in hits :
                          /\ \A j \in hits : j <= i
                          /\ call[t].method.c = interfaces[root][i]
                    /\ methods0[call[t].method.c][call[t].method.k].name = RefName(cur[t])
                    /\ methods0[call[t].method.c][call[t].method.k].sig = RefSig(cur[t])
              /\ (cur[t].this = "X" /\ cur[t].idx = 5) =>
                    call[t].method = MethodPtr("J", 1)

\* C12 witness: X's special-2 reference to g()V has been resolved to the g of
\* J, which X implements only through I.
C12_Witness ==
    \E t \in Threads :
       /\ FellBackToInterfaces(t) /\ cur[t].this = "X" /\ cur[t].idx = 5
       /\ call[t].method = MethodPtr("J", 1)
       /\ \A i \in 1..interface_len["X"] : interfaces["X"][i] # "J"

\* What a field reference says, read from the pool as the class file gave it.
IsFieldCall(c) == c.op = "getField" /\ pool0[c.this][c.idx].tag = "CONSTANT_Fieldref"
FieldRefName(c) == pool0[c.this][pool0[c.this][pool0[c.this][c.idx].data.hi].data.lo].data.u
FieldRefClass(c) == NamedClass(pool0[c.this][pool0[c.this][c.idx].data.lo].data.u)

\* Class d itself declares a field with this name and static-ness.
DeclaresField(d, n, st) ==
    \E k \in 1..Len(fields0[d]) : fields0[d][k].name = n /\ fields0[d][k].static = st

\* C13: a getField whose class resolved and does not itself declare the field
\* returns false with NoSuchFieldError for the field's name, having stored the
\* class name and the field name, also when a superclass declares the field.
C13_NoSuperclassWalk ==
    \A t \in Threads :
       (/\ Done(t) /\ IsFieldCall(cur[t]) /\ fr[t].class.k = "class"
        /\ ~DeclaresField(fr[t].class.c, FieldRefName(cur[t]), cur[t].isStatic)) =>
          /\ ret[t] = RetBool(FALSE)
          /\ einfo[t] = postExceptionMessage("java.lang.NoSuchFieldError",
                                             FieldRefName(cur[t]))
          /\ finfo[t].cname = WUtf(className[fr[t].class.c])
          /\ finfo[t].name = FieldRefName(cur[t])

\* C13 witness: getField on B.v, which only B's superclass A declares, has
\* returned false with NoSuchFieldError.
C13_Witness ==
    \E t \in Threads :
       /\ Done(t) /\ IsFieldCall(cur[t]) /\ fr[t].class = WClass("B")
       /\ ~DeclaresField("B", FieldRefName(cur[t]), cur[t].isStatic)
       /\ DeclaresField(superclass["B"], FieldRefName(cur[t]), cur[t].isStatic)
       /\ ret[t] = RetBool(FALSE)
       /\ einfo[t].classname = "java.lang.NoSuchFieldError"

\* The finished call of thread t was made on an index whose tag its function
\* does not accept.
WrongTagDone(t) ==
    /\ Done(t)
    /\ \/ /\ cur[t].op = "getClass"
          /\ pool0[cur[t].this][cur[t].idx].tag
                \notin {"CONSTANT_Class", "CONSTANT_ResolvedClass"}
       \/ cur[t].op = "getMethodSignatureClass" /\ ~ValidMethodTag(cur[t])

\* C14: every call of getClass or getMethodSignatureClass on an index with a
\* wrong tag ends with the same error kind, ClassFormatError.
C14_WrongTagIsClassFormatError ==
    \A t \in Threads :
       WrongTagDone(t) => einfo[t].classname = "java.lang.ClassFormatError"

\* Call c is made on an index whose tag its function does not accept.
WrongTag(c) ==
    LET tag == pool0[c.this][c.idx].tag
    IN  CASE c.op = "getClass" -> tag \notin {"CONSTANT_Class", "CONSTANT_ResolvedClass"}
          [] c.op = "getMethodSignatureClass" ->
                tag \notin {"CONSTANT_Methodref", "CONSTANT_InterfaceMethodref"}
          [] c.op = "getField" -> tag # "CONSTANT_Fieldref"
          [] OTHER -> FALSE

\* C15: a call of getClass, getField or getMethodSignatureClass on an index
\* with a wrong tag is one step that posts an error and returns failure; it
\* starts no getClass of its own (no lock, no loader call), changes no pool
\* slot, lock, class state, method record or fieldInfo, and
\* getMethodSignatureClass leaves class, method, name, signature and cname of
\* the binding absent.
C15_WrongTagNoEffect ==
    [][\A t \in Threads :
          (Started(t) /\ WrongTag(cur'[t])) =>
             /\ pc'[t] = "done"
             /\ ret'[t] = (IF cur'[t].op = "getClass" THEN RetClass(WNull) ELSE RetBool(FALSE))
             /\ einfo'[t].type = "KERR_EXCEPTION"
             /\ UNCHANGED <<pool, lock, cstate, methods, finfo, failed>>
             /\ cur'[t].op = "getMethodSignatureClass" =>
                   /\ call'[t].class = WNull
                   /\ call'[t].method = NoMethod
                   /\ call'[t].name = NoUtf
                   /\ call'[t].signature = NoUtf
                   /\ call'[t].cname = WNull]_vars

\* C15 witness: a getField and a getMethodSignatureClass have both returned
\* from a call on an index with a wrong tag, and the slots are as loaded.
C15_Witness ==
    \E t, u \in Threads :
       /\ Done(t) /\ cur[t].op = "getField" /\ WrongTag(cur[t])
       /\ ret[t] = RetBool(FALSE)
       /\ Done(u) /\ cur[u].op = "getMethodSignatureClass" /\ WrongTag(cur[u])
       /\ ret[u] = RetBool(FALSE) /\ call[u] = NoCall
       /\ pool = pool0

\* The method record k of class c with the trap installed and nothing else changed.
Trapped(c, k) ==
    [methods0[c][k] EXCEPT !.ncode = "throwAbstractMethodError",
                           !.accflags = @ \cup {"ACC_NATIVE"}]

\* The same with only the first of the two writes done.
HalfTrapped(c, k) == [methods0[c][k] EXCEPT !.ncode = "throwAbstractMethodError"]

\* A call has matched method k of class c in findMethodLocal and has finished
\* (has returned from) the patch.
PatchedBy(t, c, k) ==
    /\ Done(t) /\ fr[t].mptr = MethodPtr(c, k)
    /\ "ACC_ABSTRACT" \in methods0[c][k].accflags /\ ~CLASS_IS_INTERFACE(c)

\* C16: a method record changes only by the trap patch: it is as loaded, or
\* has the trap without the flag, or has both; once a call that matched it has
\* returned and no call is running it has exactly the trap and ACC_NATIVE
\* added, however many calls matched it and however their writes interleaved,
\* and invoking it throws AbstractMethodError; a method that is not abstract,
\* or is an interface's, is as loaded.
C16_TrapPatchIdempotent ==
    \A c \in Classes : \A k \in 1..Len(methods0[c]) :
       /\ methods[c][k] \in {methods0[c][k], HalfTrapped(c, k), Trapped(c, k)}
       /\ (Quiet /\ \E t \in Threads : PatchedBy(t, c, k)) =>
             /\ methods[c][k] = Trapped(c, k)
             /\ InvokeNcode(methods[c][k]) = "java.lang.AbstractMethodError"
       /\ ("ACC_ABSTRACT" \notin methods0[c][k].accflags \/ CLASS_IS_INTERFACE(c)) =>
             methods[c][k] = methods0[c][k]

\* C16 witness: one call has returned the patched abstract method while a
\* second call that matched the same method is between its two writes.
C16_Witness ==
    \E t, u \in Threads :
       /\ t # u /\ PatchedBy(t, "A", 3)
       /\ pc[u] = "fl_flags" /\ fr[u].mptr = MethodPtr("A", 3)
       /\ "ACC_NATIVE" \in methods["A"][3].accflags

\* ------------------------------------------------------------- forName
\* Thread t has finished a call of forName by throwing.
FnThrew(t) == pc[t] = "done" /\ cur[t].op = "forName" /\ fn[t].error # NoError

\* The loader failed with a descriptor of class cls.
LoaderPosted(t, cls) ==
    fn[t].loaded.type = "KERR_EXCEPTION" /\ fn[t].loaded.classname = cls

\* The loader's NoClassDefFoundError names exactly the class requested.
NotFoundRequested(t) ==
    LoaderPosted(t, "java.lang.NoClassDefFoundError") /\ fn[t].loaded.mess = fn[t].buf

\* What the loader's descriptor is upgraded to.
Upgraded(t) ==
    postExceptionMessage("java.lang.ClassNotFoundException", fn[t].loaded.mess)

\* C17 as stated: whenever the loader fails in forName with a VerifyError, or
\* with a NoClassDefFoundError whose message is the requested name, forName
\* throws ClassNotFoundException with the same message (checked for the calls
\* in which lookupClassEntry, if called, returned an entry).
C17_FailureUpgraded ==
    \A t \in Threads :
        (/\ FnThrew(t)
         /\ LoaderPosted(t, "java.lang.VerifyError") \/ NotFoundRequested(t)
         /\ fn[t].centry # "0")
            => fn[t].error = Upgraded(t)

\* C17, amended: a VerifyError is always upgraded to ClassNotFoundException
\* with the same message; a NoClassDefFoundError naming the requested class is
\* upgraded when lookupClassEntry returns an entry whose class is not FAILED.
C17_UpgradedUnlessEntryFailed ==
    \A t \in Threads :
        FnThrew(t) =>
            /\ LoaderPosted(t, "java.lang.VerifyError") => fn[t].error = Upgraded(t)
            /\ (NotFoundRequested(t) /\ fn[t].centry = "entry") => fn[t].error = Upgraded(t)
            /\ (NotFoundRequested(t) /\ fn[t].centry = "FAILED") => fn[t].error = fn[t].loaded

\* A NoClassDefFoundError for the requested class q/M was upgraded, and in
\* the same run a VerifyError was.
C17_Witness ==
    \E t, u \in Threads :
        /\ FnThrew(t) /\ NotFoundRequested(t) /\ fn[t].buf = U_qM
        /\ fn[t].centry = "entry" /\ fn[t].error = Upgraded(t)
        /\ FnThrew(u) /\ LoaderPosted(u, "java.lang.VerifyError")
        /\ fn[u].error = Upgraded(u)

\* The loader's NoClassDefFoundError names a class other than the one requested.
NotFoundDependency(t) ==
    LoaderPosted(t, "java.lang.NoClassDefFoundError") /\ fn[t].loaded.mess # fn[t].buf

\* The requested name is an array name.
ArrayRequested(t) == fn[t].buf[1] = "["

\* C18 as stated: for every requested name, array names included, a
\* NoClassDefFoundError of the loader that names another class than the one
\* requested is thrown by forName as it is (checked for the calls in which
\* lookupClassEntry returned an entry).
C18_DependencyNeverUpgraded ==
    \A t \in Threads :
        (FnThrew(t) /\ NotFoundDependency(t) /\ fn[t].centry # "0")
            => fn[t].error = fn[t].loaded

\* C18, amended: for a requested name that is not an array name, a
\* NoClassDefFoundError naming another class is thrown as it is; for an array
\* name it is upgraded to ClassNotFoundException, like every
\* NoClassDefFoundError, when lookupClassEntry returns an entry whose class is
\* not FAILED.
C18_ClassDependencyNotUpgraded ==
    \A t \in Threads :
        (FnThrew(t) /\ NotFoundDependency(t)) =>
            /\ ~ArrayRequested(t) => fn[t].error = fn[t].loaded
            /\ (ArrayRequested(t) /\ fn[t].centry = "entry") => fn[t].error = Upgraded(t)

\* forName of X threw the NoClassDefFoundError for q/M unchanged, and forName
\* of [Lq/M; threw ClassNotFoundException for the missing element class q/M.
C18_Witness ==
    \E t, u \in Threads :
        /\ FnThrew(t) /\ NotFoundDependency(t) /\ fn[t].buf = U_X
        /\ fn[t].loaded.mess = U_qM /\ fn[t].error = fn[t].loaded
        /\ FnThrew(u) /\ NotFoundDependency(u) /\ ArrayRequested(u)
        /\ fn[u].loaded.mess = U_qM
        /\ fn[u].error = postExceptionMessage("java.lang.ClassNotFoundException", U_qM)

\* C19: a forName of a class that was FAILED when the call began throws the
\* descriptor the loader posted, unchanged, whether it is a
\* NoClassDefFoundError or a VerifyError.
C19_FailedNeverUpgraded ==
    \A t \in Threads :
        (FnThrew(t) /\ fn[t].wasFailed) => fn[t].error = fn[t].loaded

\* The NoClassDefFoundError arm of C19 alone: such a call throws the loader's
\* NoClassDefFoundError unchanged.
FailedNotFoundUnchanged ==
    \A t \in Threads :
        (FnThrew(t) /\ fn[t].wasFailed /\ LoaderPosted(t, "java.lang.NoClassDefFoundError"))
            => fn[t].error = fn[t].loaded


\* How often id occurs in the sequence s.
Occurrences(id, s) == Cardinality({i \in DOMAIN s : s[i] = id})

\* C20: when forName has thrown, every error descriptor that was made in the
\* call (the loader's, one posted by lookupClassEntry, the upgraded one, one
\* posted by processClass) has been discarded or thrown exactly once in all,
\* and none was overwritten while it was neither discarded nor held by the
\* copy.
C20_ExactlyOnce ==
    \A t \in Threads :
        FnThrew(t) =>
            /\ \A id \in fn[t].made :
                  Occurrences(id, fn[t].discarded) + Occurrences(id, fn[t].thrown) = 1
            /\ fn[t].lost = {}

\* C20 on the paths where lookupClassEntry posts nothing: there every
\* descriptor is discarded or thrown exactly once and none is lost.
ExactlyOnceUnlessLookupPosts ==
    \A t \in Threads :
        (FnThrew(t) /\ "lookup" \notin fn[t].made) =>
            /\ \A id \in fn[t].made :
                  Occurrences(id, fn[t].discarded) + Occurrences(id, fn[t].thrown) = 1
            /\ fn[t].lost = {}


\* ------------------------------------------------------------ cache hits
\* Thread t has read the tag ResolvedClass, at the first read (gc_fast) or at
\* the locked re-read (gc_check), and has not returned yet.
SawResolved(t) == pc[t] \in {"gc_fast", "gc_check"}

\* C21: a thread that read ResolvedClass at the first read holds no lock; the
\* step that follows a read of ResolvedClass, first or locked, returns the
\* slot's payload, which is a class, and changes no slot, no lock and no
\* class state (the loader is not called); the entry of the call up to the
\* first read changes none of them either.
C21_CacheHit ==
    [][\A t \in Threads :
          /\ (SawResolved(t) /\ Moved(t)) =>
                /\ pc[t] = "gc_fast" => \A c \in Contexts : lock[c] # t
                /\ pc'[t] = ReturnPc(cur[t].op)
                /\ fr'[t].class = pool[cur[t].this][fr[t].gidx].data
                /\ fr'[t].class.k = "class"
                /\ cur[t].op = "getClass" => ret'[t] = RetClass(fr'[t].class)
                /\ <<pool, lock, cstate>>' = <<pool, lock, cstate>>
          /\ (Started(t) /\ pc'[t] = "gc_fast") =>
                <<pool, lock, cstate>>' = <<pool, lock, cstate>>]_vars

\* A getClass returned the cached class after the locked re-read found the
\* slot resolved by another thread: its frame holds the tag ResolvedClass and
\* the payload read under the lock.
C21_Witness ==
    \E t \in Threads :
        /\ Done(t) /\ cur[t].op = "getClass"
        /\ fr[t].tag = "CONSTANT_ResolvedClass" /\ fr[t].name.k = "class"
        /\ ret[t] = RetClass(pool[cur[t].this][fr[t].gidx].data)


\* ---------------------------------------------------- loader entry point
\* C22: getClass called loadArray exactly when the name it read from the slot
\* begins with '[', forName exactly when the converted name does, and where a
\* getClass and a forName were given the same name they called the same
\* entry point.
C22_SameEntryPoint ==
    /\ \A t \in Threads :
          fr[t].entry # "" => (fr[t].entry = "loadArray" <=> fr[t].name.u[1] = "[")
    /\ \A t \in Threads :
          fn[t].entry # "" => (fn[t].entry = "loadArray" <=> fn[t].buf[1] = "[")
    /\ \A t, u \in Threads :
          (fr[t].entry # "" /\ fn[u].entry # "" /\ fr[t].name.u = fn[u].buf)
              => fr[t].entry = fn[u].entry

\* A getClass and a forName were both given [LA; and both called loadArray.
C22_Witness ==
    \E t, u \in Threads :
        /\ Done(t) /\ cur[t].op = "getClass" /\ fr[t].name.u = U_arrA
        /\ fr[t].entry = "loadArray"
        /\ Done(u) /\ cur[u].op = "forName" /\ fn[u].buf = U_arrA
        /\ fn[u].entry = "loadArray"


\* ----------------------------------------------------------- search order
\* The positions on the superclass chain from root, root first, whose class
\* declares the method call c refers to.
DeclaringOnChain(root, c) ==
    {i \in 1..Len(SuperChain(root)) :
        Declares(SuperChain(root)[i], RefName(c), RefSig(c))}

\* C23: a successful eager resolution ends with the method of the nearest
\* class on the superclass chain from the search root that declares the name
\* and signature; with no such class it ends with no method unless the mode is
\* special-2; a method of a class outside the chain is returned only in
\* special-2 mode and only when no class on the chain declares one.
C23_SearchOrder ==
    \A t \in Threads :
       EagerOk(t) =>
          LET root == call[t].class.c
              chain == SuperChain(root)
              hits == DeclaringOnChain(root, cur[t])
              m == call[t].method
          IN  /\ hits # {} =>
                    /\ m # NoMethod
                    /\ \E i \in hits : (\A j \in hits : i <= j) /\ m.c = chain[i]
                    /\ methods0[m.c][m.k].name = RefName(cur[t])
                    /\ methods0[m.c][m.k].sig = RefSig(cur[t])
              /\ (hits = {} /\ cur[t].isSpecial # 2) => m = NoMethod
              /\ (m # NoMethod /\ m.c \notin Range(chain)) =>
                    cur[t].isSpecial = 2 /\ hits = {}

\* One call found the method in the nearest of several declaring classes, and
\* an ordinary call ended with no method although an interface of its root
\* declares one.
C23_Witness ==
    \E t, u \in Threads :
       /\ EagerOk(t) /\ Cardinality(DeclaringOnChain(call[t].class.c, cur[t])) >= 2
       /\ call[t].method # NoMethod
       /\ SuperChain(call[t].class.c)[1] = call[t].method.c
       /\ EagerOk(u) /\ cur[u].isSpecial = 0
       /\ DeclaringOnChain(call[u].class.c, cur[u]) = {}
       /\ DeclaringInterfaces(call[u].class.c, cur[u]) # {}
       /\ call[u].method = NoMethod


\* -------------------------------------------------------- findMethodLocal
\* Thread t has finished a direct call of findMethodLocal.
LocalDone(t) == Done(t) /\ cur[t].op = "findMethodLocal"

\* The positions of class's own table with this name and signature.
OwnMatches(class, n, sg) ==
    {k \in 1..Len(methods0[class]) :
        methods0[class][k].name = n /\ methods0[class][k].sig = sg}

\* C24: findMethodLocal returns no method exactly when the class's own table
\* has no entry with the name and the signature; otherwise it returns the
\* first such entry of that table, whatever its access flags (B's private f),
\* and never an entry of another class.
C24_OwnTableOnly ==
    \A t \in Threads :
       LocalDone(t) =>
          LET c == cur[t]
              hits == OwnMatches(c.class, c.name, c.sig)
              m == ret[t].m
          IN  /\ ret[t].k = "method"
              /\ m = NoMethod <=> hits = {}
              /\ m # NoMethod =>
                    /\ m.c = c.class
                    /\ m.k \in hits
                    /\ \A j \in hits : m.k <= j
              /\ (c.class = "B" /\ c.name = U_f /\ c.sig = U_sigV) =>
                    /\ m = MethodPtr("B", 2)
                    /\ "ACC_PRIVATE" \in methods[m.c][m.k].accflags

\* B's private f was returned, and a call for h()V on B returned nothing
\* although B's superclass A declares it.
C24_Witness ==
    \E t, u \in Threads :
       /\ LocalDone(t) /\ ret[t].m = MethodPtr("B", 2)
       /\ LocalDone(u) /\ cur[u].class = "B" /\ cur[u].name = U_h
       /\ ret[u].m = NoMethod
       /\ OwnMatches("A", U_h, U_sigV) # {}


\* The method record m as the class file gave it is abstract and its declaring
\* class is no interface.
AbstractOfClass(m) ==
    /\ "ACC_ABSTRACT" \in methods0[m.c][m.k].accflags
    /\ ~CLASS_IS_INTERFACE(methods0[m.c][m.k].class)

\* The two stores of the trap patch on the record r.
TrapStores(r) ==
    {[r EXCEPT !.ncode = "throwAbstractMethodError"],
     [r EXCEPT !.accflags = @ \cup {"ACC_NATIVE"}]}

\* C25: a step of a thread in findMethodLocal changes no constant-pool slot,
\* no lock and no class state; the only method record it changes is the one
\* it matched, only when that method is abstract and its declaring class is no
\* interface, and only by a store of the trap patch; when the call returns a
\* method, that method carries the trap and ACC_NATIVE if it is abstract and
\* of a class, and is as loaded otherwise.
C25_LocalFrame ==
    [][\A t \in Threads :
          Moved(t) =>
             LET m == fr'[t].mptr
             IN  /\ <<pool, lock, cstate>>' = <<pool, lock, cstate>>
                 /\ m # NoMethod =>
                       m.c = cur'[t].class
                          /\ m.k \in OwnMatches(m.c, cur'[t].name, cur'[t].sig)
                 /\ \A c \in Classes : \A k \in 1..Len(methods[c]) :
                       methods'[c][k] # methods[c][k] =>
                          /\ m = MethodPtr(c, k)
                          /\ AbstractOfClass(m)
                          /\ methods'[c][k] \in TrapStores(methods[c][k])
                 /\ (pc'[t] = "done" /\ m # NoMethod) =>
                       IF AbstractOfClass(m)
                       THEN /\ methods'[m.c][m.k].ncode = "throwAbstractMethodError"
                            /\ "ACC_NATIVE" \in methods'[m.c][m.k].accflags
                       ELSE methods'[m.c][m.k] = methods0[m.c][m.k]]_vars

\* A's abstract h was returned with the trap installed, and J's abstract g,
\* an interface method, was returned as loaded.
C25_Witness ==
    \E t, u \in Threads :
       /\ LocalDone(t) /\ ret[t].m = MethodPtr("A", 3)
       /\ methods["A"][3].ncode = "throwAbstractMethodError"
       /\ "ACC_NATIVE" \in methods["A"][3].accflags
       /\ LocalDone(u) /\ ret[u].m = MethodPtr("J", 1)
       /\ methods["J"][1] = methods0["J"][1]


\* ------------------------------------------------------------- findMethod
\* The positions on the superclass chain from root, root first, whose class
\* declares a method with this name and signature.
ChainHits(root, n, sg) ==
    {i \in 1..Len(SuperChain(root)) : Declares(SuperChain(root)[i], n, sg)}

\* C26: findMethod enters processClass exactly when the class's state is below
\* USABLE.  When processClass fails the call returns no method with the error
\* processClass posted and no method record is touched; when it succeeds the
\* class is COMPLETE and the search follows.  The search returns the method of
\* the nearest declaring class on the superclass chain without posting an
\* error, and returns no method with NoSuchMethodError carrying the name exactly
\* when no class on the chain declares the name and signature.
C26_FindMethod ==
    [][\A t \in Threads :
          (Moved(t) /\ cur'[t].op = "findMethod") =>
             LET c == cur'[t]
                 hits == ChainHits(c.class, c.name, c.sig)
             IN  /\ pc[t] \in {"idle", "done"} =>
                       /\ pc'[t] = IF cstate[c.class] < CSTATE_USABLE
                                   THEN "fm_process" ELSE "fm_search"
                       /\ <<methods, cstate>>' = <<methods, cstate>>
                 /\ pc[t] = "fm_process" =>
                       \/ /\ pc'[t] = "fm_search"
                          /\ cstate'[c.class] = CSTATE_COMPLETE
                          /\ einfo'[t] = einfo[t]
                          /\ methods' = methods
                       \/ /\ pc'[t] = "done"
                          /\ ret'[t] = RetMethod(NoMethod)
                          /\ einfo'[t].type = "KERR_EXCEPTION"
                          /\ einfo'[t].classname # "java.lang.NoSuchMethodError"
                          /\ fr'[t].mptr = NoMethod
                          /\ methods' = methods
                 /\ pc[t] = "fm_search" =>
                       /\ hits = {} =>
                             /\ pc'[t] = "done"
                             /\ ret'[t] = RetMethod(NoMethod)
                             /\ einfo'[t] =
                                   postExceptionMessage("java.lang.NoSuchMethodError", c.name)
                       /\ hits # {} =>
                             /\ \E i \in hits :
                                   /\ \A j \in hits : i <= j
                                   /\ fr'[t].mptr.c = SuperChain(c.class)[i]
                             /\ methods0[fr'[t].mptr.c][fr'[t].mptr.k].name = c.name
                             /\ methods0[fr'[t].mptr.c][fr'[t].mptr.k].sig = c.sig
                             /\ einfo'[t] = einfo[t]
                             /\ pc'[t] = "done" => ret'[t] = RetMethod(fr'[t].mptr)
                 /\ pc[t] = "fl_flags" =>
                       ret'[t] = RetMethod(fr[t].mptr) /\ einfo'[t] = einfo[t]]_vars

\* A findMethod on B, which was below USABLE, returned no method with the
\* error of the failed processClass, B is FAILED and no method record has been
\* touched, although B declares the method.
C26_Witness ==
    \E t \in Threads :
       /\ Done(t) /\ cur[t].op = "findMethod"
       /\ ret[t] = RetMethod(NoMethod)
       /\ einfo[t] = postException("java.lang.ExceptionInInitializerError")
       /\ cstate[cur[t].class] = CSTATE_FAILED
       /\ ChainHits(cur[t].class, cur[t].name, cur[t].sig) # {}
       /\ methods = methods0


\* ------------------------------------------------------- no initialisation
\* C27: a step of a thread in getMethodSignatureClass changes class states
\* only where it is the loader call of getClass, and then as the loader
\* leaves them; it never moves a class to a state above LINKED.
C27_NeverInitialises ==
    [][\A t \in Threads :
          (Moved(t) /\ cur'[t].op = "getMethodSignatureClass") =>
             /\ \/ cstate' = cstate
                \/ /\ pc[t] = "gc_load"
                   /\ \E r \in GcLoader(fr[t].name.u, cstate) : cstate' = r.cstate
             /\ \A c \in Classes :
                   cstate'[c] # cstate[c] =>
                      cstate'[c] \in {CSTATE_LINKED, CSTATE_FAILED}]_vars

\* An eager resolution called the loader for its class and found a method,
\* and the classes on the chain searched are LINKED, not initialised.
C27_Witness ==
    \E t \in Threads :
       /\ EagerOk(t) /\ fr[t].entry # ""
       /\ call[t].method # NoMethod
       /\ \A c \in Range(SuperChain(call[t].class.c)) : cstate[c] = CSTATE_LINKED


\* --------------------------------------------------- getField on failure
\* C28: while a getField has no resolved class its fieldInfo is not written;
\* a failure of getClass is handed on with its error descriptor unchanged and
\* ends the call with false at once; and a getField that returns false has
\* written neither the field nor the class of its fieldInfo.
C28_FailsImmediately ==
    [][\A t \in Threads :
          (Moved(t) /\ cur'[t].op = "getField") =>
             /\ (pc[t] # "gf_ret" \/ fr[t].class = WNull) => finfo'[t] = finfo[t]
             /\ (pc[t] = "gc_loaded" /\ fr[t].class = WNull) =>
                   pc'[t] = "gf_ret" /\ einfo'[t] = einfo[t]
             /\ (pc[t] = "gf_ret" /\ fr[t].class = WNull) =>
                   /\ pc'[t] = "done"
                   /\ ret'[t] = RetBool(FALSE)
                   /\ einfo[t] # NoError
                   /\ einfo'[t] = einfo[t]
             /\ (pc'[t] = "done" /\ ret'[t] = RetBool(FALSE)) =>
                   /\ finfo'[t].field = finfo[t].field
                   /\ finfo'[t].class = finfo[t].class]_vars

\* A getField on the Fieldref of X.v returned false with the loader's error
\* and an untouched fieldInfo.
C28_Witness ==
    \E t \in Threads :
       /\ Done(t) /\ cur[t].op = "getField" /\ cur[t].idx = 27
       /\ fr[t].class = WNull /\ fr[t].entry # ""
       /\ ret[t] = RetBool(FALSE)
       /\ einfo[t].classname \in {"java.lang.NoClassDefFoundError", "java.lang.VerifyError"}
       /\ finfo[t] = NoFieldInfo


\* ------------------------------------------------------------ termination
\* Thread t is inside a call.
Busy(t) == pc[t] \notin {"idle", "done"}

\* A thread that holds a lock is between lockMutex and unlockMutex of one of
\* the two locked sections of getClass: it is not in the loader and not asking
\* for a lock; no thread holds two locks.
LockDiscipline ==
    \A t \in Threads :
       /\ (\E c \in Contexts : lock[c] = t) => pc[t] \in {"gc_reread", "gc_wtag"}
       /\ \A c, d \in Contexts : (lock[c] = t /\ lock[d] = t) => c = d

\* C29: under fair scheduling, with loader calls that return, every call of
\* getClass, getMethodSignatureClass and getField that has begun returns; a
\* thread that holds a resolution lock is never in the loader and never
\* asking for another lock, so no thread waits for a class load of another.
C29_Termination ==
    /\ []LockDiscipline
    /\ \A t \in Threads : Busy(t) ~> Done(t)

\* Two threads in the same context both called the loader for the same slot,
\* both took the lock to write it, and both have returned.
C29_Witness ==
    \E t, u \in Threads :
       /\ t # u /\ Done(t) /\ Done(u)
       /\ cur[t].this = cur[u].this /\ fr[t].gidx = fr[u].gidx
       /\ fr[t].entry # "" /\ fr[u].entry # ""
       /\ fr[t].class # WNull /\ fr[u].class # WNull

\* ------------------------------------------------------ constant-pool writes
\* Slot i of context c was changed in this step by thread t, in the way getClass
\* resolves a Class slot: the slot began as a Class slot and is the one t is
\* resolving, t holds the lock of c when the store is made (taken in the step
\* of the first store, released in the step of the last), the payload after the
\* step is the class the loader returned to t, and the tag is unchanged or
\* ResolvedClass.
ResolvingWrite(t, c, i) ==
    /\ pc[t] \in {"gc_loaded", "gc_wtag"}
    /\ cur[t].this = c /\ fr[t].gidx = i
    /\ pool0[c][i].tag = "CONSTANT_Class"
    /\ lock[c] = t \/ (lock[c] = 0 /\ lock'[c] = t)
    /\ fr[t].class.k = "class"
    /\ cstate[fr[t].class.c] >= CSTATE_LINKED
    /\ pool'[c][i].data = fr[t].class
    /\ pool'[c][i].tag \in {pool[c][i].tag, "CONSTANT_ResolvedClass"}

\* Every slot that did not begin as a Class slot is as it began; a slot that
\* began as a Class slot is a Class slot or a ResolvedClass slot, and a
\* ResolvedClass slot holds a class.
PoolShape ==
    \A c \in Contexts : \A i \in DOMAIN pool0[c] :
       IF pool0[c][i].tag # "CONSTANT_Class"
       THEN pool[c][i] = pool0[c][i]
       ELSE /\ pool[c][i].tag \in {"CONSTANT_Class", "CONSTANT_ResolvedClass"}
            /\ pool[c][i].tag = "CONSTANT_ResolvedClass" => pool[c][i].data.k = "class"

\* C30: getClass, getMethodSignatureClass and getField change the constant pool
\* only by resolving a Class slot: each changed slot is changed by a thread
\* that holds the context's lock and stores the loaded class and the tag
\* ResolvedClass; slots of every other kind keep tag and payload, and a
\* ResolvedClass tag stays.
C30_OnlyResolvingWrites ==
    [][/\ PoolShape /\ PoolShape'
       /\ DOMAIN pool' = DOMAIN pool
       /\ \A c \in Contexts :
             /\ DOMAIN pool'[c] = DOMAIN pool[c]
             /\ \A i \in DOMAIN pool[c] :
                   /\ pool'[c][i] # pool[c][i] => \E t \in Threads : ResolvingWrite(t, c, i)
                   /\ pool[c][i].tag = "CONSTANT_ResolvedClass"
                         => pool'[c][i].tag = "CONSTANT_ResolvedClass"]_vars

\* Calls of all three operations have returned, a Class slot of C has become
\* a ResolvedClass slot holding a class, and no lock is held.
C30_Witness ==
    /\ \E i \in DOMAIN pool0["C"] :
          /\ pool0["C"][i].tag = "CONSTANT_Class"
          /\ pool["C"][i].tag = "CONSTANT_ResolvedClass"
          /\ pool["C"][i].data.k = "class"
    /\ \A c \in Contexts : lock[c] = 0
    /\ \E t, u \in Threads :
          /\ t # u /\ Done(t) /\ Done(u)
          /\ cur[t].op # cur[u].op
          /\ fr[t].entry # ""

\* ------------------------------------------- the name of an unresolved class
\* Thread t's getMethodSignatureClass has returned false because its getClass
\* on a Class slot returned NULL.
ResolutionFailed(t) ==
    /\ Done(t)
    /\ cur[t].op = "getMethodSignatureClass" /\ cur[t].loadClass
    /\ ret[t] = RetBool(FALSE)
    /\ fr[t].gidx # 0 /\ fr[t].class = WNull
    /\ pool0[cur[t].this][fr[t].gidx].tag = "CONSTANT_Class"

\* C31: when getMethodSignatureClass reports a class-resolution failure, the
\* cname of its binding is the Utf8 name the referenced Class slot began with,
\* whatever another thread did to the slot in the meantime.
C31_CnameIsName ==
    \A t \in Threads :
       ResolutionFailed(t) => call[t].cname = pool0[cur[t].this][fr[t].gidx].data

\* What does hold: the cname of a failed resolution is the slot's name, or it
\* is the class handle another thread has stored in the slot, and then the
\* slot is resolved or its writer is between its two stores.
CnameIsNameOrHandle ==
    \A t \in Threads :
       ResolutionFailed(t) =>
          \/ call[t].cname = pool0[cur[t].this][fr[t].gidx].data
          \/ /\ call[t].cname.k = "class"
             /\ call[t].cname = Data(cur[t].this, fr[t].gidx)

\* A resolution failed and its cname is the name: no other thread had stored
\* into the slot before the read.
CnameIsNameReached ==
    \E t \in Threads :
       /\ ResolutionFailed(t)
       /\ call[t].cname = pool0[cur[t].this][fr[t].gidx].data

\* ------------------------------------------------- the binding's owning class
\* Thread t's eager getMethodSignatureClass has returned true.
ReturnedTrue(t) ==
    /\ Done(t)
    /\ cur[t].op = "getMethodSignatureClass" /\ cur[t].loadClass
    /\ ret[t] = RetBool(TRUE)

\* The special-1 retarget condition for thread t, which is about to leave its
\* getClass with a class: the name is not the constructor name, the class is
\* not the context class, and the context class is a subtype of it.
RetargetHolds(t) ==
    /\ pc[t] = "ms_ret" /\ fr[t].class.k = "class"
    /\ cur[t].isSpecial = 1
    /\ ~utf8ConstEqual(call[t].name, constructor_name)
    /\ fr[t].class.c # cur[t].this
    /\ instanceof(fr[t].class.c, cur[t].this)

\* C32: an eager getMethodSignatureClass that returns true leaves a class in
\* call.class and that class's name in call.cname; whenever the special-1
\* retarget condition holds the context class has a superclass, so no call
\* dereferences an absent search root.
C32_OwnerPresent ==
    \A t \in Threads :
       /\ pc[t] # "aborted"
       /\ RetargetHolds(t) => superclass[cur[t].this] # NULL
       /\ ReturnedTrue(t) =>
             /\ call[t].class.k = "class" /\ call[t].class.c \in Classes
             /\ call[t].cname = WUtf(className[call[t].class.c])

\* A special-1 call in the root context A, which has no superclass, has
\* returned true with the subclass B as owner, not retargeted; a special-1
\* call in context C was retargeted to C's superclass and has returned true.
C32_Witness ==
    \E t, u \in Threads :
       /\ ReturnedTrue(t) /\ cur[t].this = "A" /\ cur[t].isSpecial = 1
       /\ superclass["A"] = NULL
       /\ call[t].class = WClass("B")
       /\ ReturnedTrue(u) /\ cur[u].this = "C" /\ cur[u].isSpecial = 1
       /\ call[u].class = WClass(superclass["C"])
       /\ pool0["C"][METHODREF_CLASS(cur[u].idx, pool0["C"])].data # WUtf(className[superclass["C"]])

\* ------------------------------------------------------ the lock-free reader
\* Thread t read the tag ResolvedClass at the first, unlocked read of getClass
\* and has not read the payload yet.
OnFastPath(t) == pc[t] = "gc_fast"

FastPathHit ==
    \E t, u \in Threads :
       /\ t # u
       /\ Done(t) /\ cur[t].op = "getClass"
       /\ pool0[cur[t].this][fr[t].gidx].tag = "CONSTANT_Class"
       /\ fr[t].tag = "CONSTANT_ResolvedClass" /\ fr[t].name = WNull
       /\ ret[t].w.k = "class"
       /\ cur[u].this = cur[t].this /\ fr[u].gidx = fr[t].gidx
       /\ fr[u].entry # "" /\ fr[u].class = ret[t].w

====
